---- MODULE Spec2Model ----
(***************************************************************************)
(* Model of the mempool aggregate of electrs (src/new_index/mempool.rs):   *)
(* the store, the script-history index, the spend edges, the fee and       *)
(* recent indices, the cached backlog summary, the update cycle run by the *)
(* synchronizer and the out-of-band add_by_txid.  The model follows the    *)
(* opcat_layer build of the source.                                        *)
(***************************************************************************)
EXTENDS Integers, Sequences, FiniteSets, TLC

(***************************************************************************)
(* Bounds of the model.                                                    *)
(***************************************************************************)
\* config.mempool_recent_txs_size: capacity of the recent deque
RecentTxsSize == 2
\* the largest limit or page size a reader asks for
MaxLimit == 3
\* the clock stops ticking at MaxTime
MaxTime == 2

(***************************************************************************)
(* Configuration read by the aggregate.                                    *)
(***************************************************************************)
\* config.mempool_backlog_stats_ttl, in ticks of the model's clock
BacklogStatsTtl == 1
\* config.index_unspendables
index_unspendables == FALSE

(***************************************************************************)
(* Chain data: outpoints, transactions, the confirmed outputs.             *)
(***************************************************************************)
\* vout of the coinbase sentinel: u32::MAX, written as the 32-bit pattern
\* 0xFFFFFFFF read as a signed integer (it is only compared for equality)
NullVout == 0 - 1

OutPoint(t, v) == [txid |-> t, vout |-> v]

\* the coinbase sentinel: all-zero txid, vout 0xFFFFFFFF
Sentinel == OutPoint(0, NullVout)

TxIn(op) == [previous_output |-> op]

TxOut(v, s) == [value |-> v, script_pubkey |-> s]

\* The transactions the Daemon can ever report, by txid.
\*   1: a coinbase-style transaction paying 50 to script "S"
\*   2: spends (1,0), pays 49 to script "S2"
\*   3: spends (1,0) as well (conflicts with 2) and the confirmed output
\*      (9,0); pays 30 to "S" and has an unspendable output
\*   4: spends the confirmed output (9,0) as well (conflicts with 3); pays
\*      4 and 5 to "S"
TxData ==
    [t \in 1..4 |->
        CASE t = 1 -> [input  |-> <<TxIn(Sentinel)>>,
                       output |-> <<TxOut(50, "S")>>]
          [] t = 2 -> [input  |-> <<TxIn(OutPoint(1, 0))>>,
                       output |-> <<TxOut(49, "S2")>>]
          [] t = 3 -> [input  |-> <<TxIn(OutPoint(1, 0)), TxIn(OutPoint(9, 0))>>,
                       output |-> <<TxOut(30, "S"), TxOut(0, "OP_RETURN")>>]
          [] t = 4 -> [input  |-> <<TxIn(OutPoint(9, 0))>>,
                       output |-> <<TxOut(4, "S"), TxOut(5, "S")>>]]

Txids == DOMAIN TxData

\* Transaction::txid(): the content hash of a transaction
txid_of(tx) == CHOOSE t \in Txids : TxData[t] = tx

\* ChainQuery: the confirmed, available outputs
ChainTxos == (OutPoint(9, 0) :> TxOut(10, "S"))

\* ChainQuery::lookup_avail_txos
lookup_avail_txos(outpoints) ==
    [op \in (outpoints \cap DOMAIN ChainTxos) |-> ChainTxos[op]]

\* util::has_prevout: true for a non-sentinel input
has_prevout(txin) == txin.previous_output # Sentinel

\* Transaction::is_coin_base
is_coin_base(tx) ==
    Len(tx.input) = 1 /\ tx.input[1].previous_output = Sentinel

\* util::is_spendable: false for a provably unspendable script
is_spendable(txo) == txo.script_pubkey # "OP_RETURN"

\* new_index::compute_script_hash
compute_script_hash(script) == <<"sha256", script>>

\* util::full_hash: the 32 bytes of a txid
full_hash(t) == <<"bytes", t>>

\* TxHistoryInfo::get_txid: the txid deserialized from the entry's bytes
get_txid(entry) == entry.txid[2]

(***************************************************************************)
(* Helpers on finite maps and sequences.                                   *)
(***************************************************************************)
Restrict(f, S) == [x \in (DOMAIN f \cap S) |-> f[x]]

\* HashMap::insert / BTreeMap::insert
MapInsert(f, k, v) == [x \in (DOMAIN f \cup {k}) |-> IF x = k THEN v ELSE f[x]]

\* all the orders in which a finite set can be enumerated
Perms(S) ==
    {s \in [1..Cardinality(S) -> S] : \A i, j \in DOMAIN s : i # j => s[i] # s[j]}

RECURSIVE SumOver(_, _)
SumOver(f, S) ==
    IF S = {} THEN 0
    ELSE LET x == CHOOSE y \in S : TRUE IN f[x] + SumOver(f, S \ {x})

(***************************************************************************)
(* Output resolver.                                                        *)
(***************************************************************************)
\* Mempool::lookup_txos: the confirmed outputs, then the outputs of the
\* transactions of txstore; an outpoint found in neither is omitted
lookup_txos(store, outpoints) ==
    LET confirmed_txos == lookup_avail_txos(outpoints)
        in_mempool(op) ==
            /\ op \notin DOMAIN confirmed_txos
            /\ op.txid \in DOMAIN store
            /\ op.vout + 1 \in DOMAIN store[op.txid].output
        mempool_ops == {op \in outpoints : in_mempool(op)}
    IN  [op \in (DOMAIN confirmed_txos \cup mempool_ops) |->
            IF op \in DOMAIN confirmed_txos THEN confirmed_txos[op]
            ELSE store[op.txid].output[op.vout + 1]]

\* Mempool::get_prevouts: the non-sentinel previous outputs of the given
\* transactions
get_prevouts(store, txids) ==
    UNION {{store[t].input[i].previous_output :
                i \in {j \in DOMAIN store[t].input : has_prevout(store[t].input[j])}} :
           t \in txids}

\* util::extract_tx_prevouts: the resolved output of every non-sentinel
\* input, by input index (from 0); an error when one of them is missing
extract_tx_prevouts(tx, txos) ==
    LET idx == {i \in 0..(Len(tx.input) - 1) : has_prevout(tx.input[i + 1])}
    IN  IF \A i \in idx : tx.input[i + 1].previous_output \in DOMAIN txos
        THEN [ok |-> TRUE,
              prevouts |-> [i \in idx |-> txos[tx.input[i + 1].previous_output]]]
        ELSE [ok |-> FALSE, prevouts |-> <<>>]

(***************************************************************************)
(* Fee record.                                                             *)
(***************************************************************************)
\* Transaction::weight: the serialized size (scripts taken as 25 bytes,
\* script_sig and data empty)
weight(tx) == 10 + 41 * Len(tx.input) + 35 * Len(tx.output)

\* TxFeeInfo::new: fee = inputs - outputs (0 for a coinbase), vsize =
\* ceil(weight / 4)
TxFeeInfo(tx, prevouts) ==
    LET total_in  == SumOver([i \in DOMAIN prevouts |-> prevouts[i].value],
                             DOMAIN prevouts)
        total_out == SumOver([o \in DOMAIN tx.output |-> tx.output[o].value],
                             DOMAIN tx.output)
    IN  [fee   |-> IF is_coin_base(tx) THEN 0 ELSE total_in - total_out,
         vsize |-> (weight(tx) + 3) \div 4]

(***************************************************************************)
(* Ingestion.  The aggregate is handled as a record m with the fields      *)
(* txstore, feeinfo, history, edges and recent.                            *)
(***************************************************************************)
\* history.entry(scripthash).or_default().push(entry)
HistoryPush(history, scripthash, entry) ==
    IF scripthash \in DOMAIN history
    THEN [history EXCEPT ![scripthash] = Append(@, entry)]
    ELSE MapInsert(history, scripthash, <<entry>>)

RECURSIVE HistoryPushAll(_, _)
HistoryPushAll(history, pairs) ==
    IF pairs = <<>> THEN history
    ELSE HistoryPushAll(HistoryPush(history, Head(pairs)[1], Head(pairs)[2]),
                        Tail(pairs))

\* mutant of PushFront: the entry is pushed at the back and the front one
\* falls off
PushFront_AtBack(recent, overview) ==
    SubSeq(recent \o <<overview>>,
           IF Len(recent) + 1 <= RecentTxsSize THEN 1
           ELSE Len(recent) + 2 - RecentTxsSize,
           Len(recent) + 1)

\* BoundedVecDeque::push_front: the oldest entry falls off the back
PushFront(recent, overview) ==
    SubSeq(<<overview>> \o recent, 1,
           IF Len(recent) + 1 <= RecentTxsSize THEN Len(recent) + 1
           ELSE RecentTxsSize)

\* mutant of AddToStore: only the first transaction of the batch is admitted
AddToStore_FirstOnly(store, txids, txs) ==
    IF txs = <<>> THEN [txstore |-> store, txids |-> txids]
    ELSE LET tx == Head(txs)
             txid == txid_of(tx)
         IN  IF txid \in DOMAIN store
             THEN [txstore |-> [store EXCEPT ![txid] = tx], txids |-> txids]
             ELSE [txstore |-> MapInsert(store, txid, tx),
                   txids |-> Append(txids, txid)]

\* mutant of AddToStore: the txid of a transaction that is stored already is
\* recorded as well
RECURSIVE AddToStore_Readmit(_, _, _)
AddToStore_Readmit(store, txids, txs) ==
    IF txs = <<>> THEN [txstore |-> store, txids |-> txids]
    ELSE LET tx == Head(txs)
             txid == txid_of(tx)
         IN  AddToStore_Readmit(MapInsert(store, txid, tx), Append(txids, txid),
                                Tail(txs))

\* Phase 1 of add: a transaction whose txid is not yet a key of txstore is
\* admitted and its txid recorded, in input order
RECURSIVE AddToStore(_, _, _)
AddToStore(store, txids, txs) ==
    IF txs = <<>> THEN [txstore |-> store, txids |-> txids]
    ELSE LET tx == Head(txs)
             txid == txid_of(tx)
         IN  IF txid \in DOMAIN store
             THEN AddToStore([store EXCEPT ![txid] = tx], txids, Tail(txs))
             ELSE AddToStore(MapInsert(store, txid, tx), Append(txids, txid),
                             Tail(txs))

\* the Funding pairs of a transaction, in output order
FundingPairs(txid, tx) ==
    LET keep(i) == is_spendable(tx.output[i]) \/ index_unspendables
        idx == SelectSeq([i \in DOMAIN tx.output |-> i], keep)
    IN  [k \in DOMAIN idx |->
            <<compute_script_hash(tx.output[idx[k]].script_pubkey),
              [kind  |-> "Funding",
               txid  |-> full_hash(txid),
               vout  |-> idx[k] - 1,
               value |-> tx.output[idx[k]].value]>>]

\* the Spending pairs of a transaction; order is the order in which the
\* prevouts map is iterated, a sequence of its keys
SpendingPairs(txid, tx, prevouts, order) ==
    [k \in DOMAIN order |->
        LET input_index == order[k]
            txi == tx.input[input_index + 1]
            prevout == prevouts[input_index]
        IN  <<compute_script_hash(prevout.script_pubkey),
              [kind      |-> "Spending",
               txid      |-> full_hash(txid),
               vin       |-> input_index,
               prev_txid |-> full_hash(txi.previous_output.txid),
               prev_vout |-> txi.previous_output.vout,
               value     |-> prevout.value]>>]

\* mutant of InsertEdges: the input index is taken from 1
RECURSIVE InsertEdges_FromOne(_, _, _, _)
InsertEdges_FromOne(edges, txid, tx, i) ==
    IF i > Len(tx.input) THEN edges
    ELSE InsertEdges_FromOne(MapInsert(edges, tx.input[i].previous_output, <<txid, i>>),
                             txid, tx, i + 1)

\* edges.insert(txi.previous_output, (txid, i)) for every input, in order
RECURSIVE InsertEdges(_, _, _, _)
InsertEdges(edges, txid, tx, i) ==
    IF i > Len(tx.input) THEN edges
    ELSE InsertEdges(MapInsert(edges, tx.input[i].previous_output, <<txid, i - 1>>),
                     txid, tx, i + 1)

\* mutant of IndexTx: the edges are inserted before the prevouts are checked
IndexTx_EdgesFirst(m, txid, txos, order) ==
    LET tx == m.txstore[txid]
        res == extract_tx_prevouts(tx, txos)
    IN  IF ~res.ok THEN [m EXCEPT !.edges = InsertEdges(@, txid, tx, 1)]
        ELSE LET feeinfo == TxFeeInfo(tx, res.prevouts)
                 overview == [txid |-> txid, fee |-> feeinfo.fee,
                              vsize |-> feeinfo.vsize]
             IN  [m EXCEPT
                    !.recent  = PushFront(@, overview),
                    !.feeinfo = MapInsert(@, txid, feeinfo),
                    !.history = HistoryPushAll(@,
                                    FundingPairs(txid, tx) \o
                                    SpendingPairs(txid, tx, res.prevouts, order)),
                    !.edges   = InsertEdges(@, txid, tx, 1),
                    !.count   = @ + 1]

\* mutant of IndexTx: the Funding entries are pushed for a transaction whose
\* prevouts are missing as well
IndexTx_FundingAlways(m, txid, txos, order) ==
    LET tx == m.txstore[txid]
        res == extract_tx_prevouts(tx, txos)
    IN  IF ~res.ok
        THEN [m EXCEPT !.history = HistoryPushAll(@, FundingPairs(txid, tx))]
        ELSE LET feeinfo == TxFeeInfo(tx, res.prevouts)
                 overview == [txid |-> txid, fee |-> feeinfo.fee,
                              vsize |-> feeinfo.vsize]
             IN  [m EXCEPT
                    !.recent  = PushFront(@, overview),
                    !.feeinfo = MapInsert(@, txid, feeinfo),
                    !.history = HistoryPushAll(@,
                                    FundingPairs(txid, tx) \o
                                    SpendingPairs(txid, tx, res.prevouts, order)),
                    !.edges   = InsertEdges(@, txid, tx, 1),
                    !.count   = @ + 1]

\* mutant of IndexTx: the Spending entries are pushed before the Funding ones
IndexTx_SpendingFirst(m, txid, txos, order) ==
    LET tx == m.txstore[txid]
        res == extract_tx_prevouts(tx, txos)
    IN  IF ~res.ok THEN m
        ELSE LET feeinfo == TxFeeInfo(tx, res.prevouts)
                 overview == [txid |-> txid, fee |-> feeinfo.fee,
                              vsize |-> feeinfo.vsize]
             IN  [m EXCEPT
                    !.recent  = PushFront(@, overview),
                    !.feeinfo = MapInsert(@, txid, feeinfo),
                    !.history = HistoryPushAll(@,
                                    SpendingPairs(txid, tx, res.prevouts, order) \o
                                    FundingPairs(txid, tx)),
                    !.edges   = InsertEdges(@, txid, tx, 1),
                    !.count   = @ + 1]

\* Phase 3 of add for one admitted transaction: skipped when a prevout is
\* missing, indexed otherwise
IndexTx(m, txid, txos, order) ==
    LET tx == m.txstore[txid]
        res == extract_tx_prevouts(tx, txos)
    IN  IF ~res.ok THEN m
        ELSE LET feeinfo == TxFeeInfo(tx, res.prevouts)
                 overview == [txid |-> txid, fee |-> feeinfo.fee,
                              vsize |-> feeinfo.vsize]
             IN  [m EXCEPT
                    !.recent  = PushFront(@, overview),
                    !.feeinfo = MapInsert(@, txid, feeinfo),
                    !.history = HistoryPushAll(@,
                                    FundingPairs(txid, tx) \o
                                    SpendingPairs(txid, tx, res.prevouts, order)),
                    !.edges   = InsertEdges(@, txid, tx, 1),
                    !.count   = @ + 1]

\* mutant of IndexAll: the admitted transactions are indexed from the last
RECURSIVE IndexAll_LastFirst(_, _, _, _)
IndexAll_LastFirst(m, txids, txos, orders) ==
    IF txids = <<>> THEN m
    ELSE IndexAll_LastFirst(IndexTx(m, txids[Len(txids)], txos, orders[txids[Len(txids)]]),
                            SubSeq(txids, 1, Len(txids) - 1), txos, orders)

\* the loop of phase 3, in the order of admission
RECURSIVE IndexAll(_, _, _, _)
IndexAll(m, txids, txos, orders) ==
    IF txids = <<>> THEN m
    ELSE IndexAll(IndexTx(m, Head(txids), txos, orders[Head(txids)]),
                  Tail(txids), txos, orders)

\* mutant of Add: the previous outputs are resolved against txstore as it
\* was before the batch was admitted
Add_ResolveFirst(m, txs, orders) ==
    IF txs = <<>> THEN [m EXCEPT !.count = 0]
    ELSE LET admitted == AddToStore(m.txstore, <<>>, txs)
             store == admitted.txstore
             new_ids == {admitted.txids[k] : k \in DOMAIN admitted.txids}
             txos == lookup_txos(m.txstore, get_prevouts(store, new_ids))
         IN  IndexAll([m EXCEPT !.txstore = store, !.count = 0],
                      admitted.txids, txos, orders)

\* Mempool::add: the aggregate after add(txs), with the returned count in
\* the field count.  orders gives, for every txid, the order in which the
\* prevouts map of that transaction is iterated.
Add(m, txs, orders) ==
    IF txs = <<>> THEN [m EXCEPT !.count = 0]
    ELSE LET admitted == AddToStore(m.txstore, <<>>, txs)
             store == admitted.txstore
             new_ids == {admitted.txids[k] : k \in DOMAIN admitted.txids}
             txos == lookup_txos(store, get_prevouts(store, new_ids))
         IN  IndexAll([m EXCEPT !.txstore = store, !.count = 0],
                      admitted.txids, txos, orders)

\* the iteration orders of the prevouts maps: one order of the non-sentinel
\* input indices for every transaction
InputOrders(t) ==
    Perms({i \in 0..(Len(TxData[t].input) - 1) : has_prevout(TxData[t].input[i + 1])})

RECURSIVE OrdersOver(_)
OrdersOver(S) ==
    IF S = {} THEN {<<>>}
    ELSE LET t == CHOOSE x \in S : TRUE
         IN  {MapInsert(f, t, order) : f \in OrdersOver(S \ {t}), order \in InputOrders(t)}

SpendOrders == OrdersOver(Txids)

(***************************************************************************)
(* Removal, in its two passes.                                             *)
(***************************************************************************)
\* mutant of RemoveFromStore: feeinfo is left alone
RemoveFromStore_KeepFee(m, to_remove) ==
    [m EXCEPT !.txstore = Restrict(@, DOMAIN @ \ to_remove)]

\* mutant of RemoveFromStore: the transactions stay in txstore
RemoveFromStore_KeepTx(m, to_remove) ==
    [m EXCEPT !.feeinfo = Restrict(@, DOMAIN @ \ to_remove)]

\* the loop of remove: txstore.remove and feeinfo.remove for every id
RemoveFromStore(m, to_remove) ==
    [m EXCEPT !.txstore = Restrict(@, DOMAIN @ \ to_remove),
              !.feeinfo = Restrict(@, DOMAIN @ \ to_remove)]

\* mutant of RemoveFromIndex: edges is left alone
RemoveFromIndex_KeepEdges(m, to_remove) ==
    LET keep(entry) == get_txid(entry) \notin to_remove
        retained == [sh \in DOMAIN m.history |-> SelectSeq(m.history[sh], keep)]
    IN  [m EXCEPT
           !.history = Restrict(retained,
                                {sh \in DOMAIN retained : retained[sh] # <<>>})]

\* mutant of RemoveFromIndex: emptied buckets are kept
RemoveFromIndex_KeepEmpty(m, to_remove) ==
    LET keep(entry) == get_txid(entry) \notin to_remove
        retained == [sh \in DOMAIN m.history |-> SelectSeq(m.history[sh], keep)]
    IN  [m EXCEPT
           !.history = retained,
           !.edges   = Restrict(@, {op \in DOMAIN @ : @[op][1] \notin to_remove})]

\* mutant of RemoveFromIndex: the overviews of the removed transactions are
\* taken out of recent too
RemoveFromIndex_DropRecent(m, to_remove) ==
    LET keep(entry) == get_txid(entry) \notin to_remove
        retained == [sh \in DOMAIN m.history |-> SelectSeq(m.history[sh], keep)]
        live(overview) == overview.txid \notin to_remove
    IN  [m EXCEPT
           !.history = Restrict(retained,
                                {sh \in DOMAIN retained : retained[sh] # <<>>}),
           !.edges   = Restrict(@, {op \in DOMAIN @ : @[op][1] \notin to_remove}),
           !.recent  = SelectSeq(@, live)]

\* mutant of RemoveFromIndex: an edge is dropped when the transaction of its
\* key, the spent outpoint, is removed
RemoveFromIndex_EdgesByKey(m, to_remove) ==
    LET keep(entry) == get_txid(entry) \notin to_remove
        retained == [sh \in DOMAIN m.history |-> SelectSeq(m.history[sh], keep)]
    IN  [m EXCEPT
           !.history = Restrict(retained,
                                {sh \in DOMAIN retained : retained[sh] # <<>>}),
           !.edges   = Restrict(@, {op \in DOMAIN @ : op.txid \notin to_remove})]

\* mutant of RemoveFromIndex: history is left alone
RemoveFromIndex_KeepHistory(m, to_remove) ==
    [m EXCEPT !.edges = Restrict(@, {op \in DOMAIN @ : @[op][1] \notin to_remove})]

\* history.retain and edges.retain
RemoveFromIndex(m, to_remove) ==
    LET keep(entry) == get_txid(entry) \notin to_remove
        retained == [sh \in DOMAIN m.history |-> SelectSeq(m.history[sh], keep)]
    IN  [m EXCEPT
           !.history = Restrict(retained,
                                {sh \in DOMAIN retained : retained[sh] # <<>>}),
           !.edges   = Restrict(@, {op \in DOMAIN @ : @[op][1] \notin to_remove})]

\* Mempool::remove
Remove(m, to_remove) == RemoveFromIndex(RemoveFromStore(m, to_remove), to_remove)

\* BacklogStats::new (the histogram of make_fee_histogram is left out)
BacklogStatsNew(feeinfo) ==
    [count     |-> Cardinality(DOMAIN feeinfo),
     vsize     |-> SumOver([t \in DOMAIN feeinfo |-> feeinfo[t].vsize], DOMAIN feeinfo),
     total_fee |-> SumOver([t \in DOMAIN feeinfo |-> feeinfo[t].fee], DOMAIN feeinfo)]

\* BacklogStats::default
BacklogStatsDefault == [count |-> 0, vsize |-> 0, total_fee |-> 0]

(***************************************************************************)
(* State.                                                                  *)
(***************************************************************************)
VARIABLES
    txstore,          \* Mempool.txstore: Txid -> Transaction
    feeinfo,          \* Mempool.feeinfo: Txid -> TxFeeInfo
    history,          \* Mempool.history: script hash -> sequence of entries
    edges,            \* Mempool.edges: OutPoint -> <<Txid, vin>>
    recent,           \* Mempool.recent: newest first
    backlog_stats,    \* Mempool.backlog_stats: the summary and its instant
    now,              \* the clock read by Instant::now()
    daemon_txs,       \* the txids of the transactions the Daemon can report
    lock,             \* the RwLock: "free", or the writer holding it
    upc,              \* position of the update cycle
    old_txids,        \* update: the snapshot of step 1
    all_txids,        \* update: the ids listed by the Daemon
    txs_to_add,       \* update: the transactions fetched from the Daemon
    apc,              \* position of add_by_txid
    abt_txid,         \* add_by_txid: its argument
    returned,         \* what the step just taken returned to its caller
    processed_count,  \* what the add called by the step just taken returned
    panicked,         \* a panic was raised under the write lock
    query,            \* the last call of a reader and what it returned
    parked            \* a second thread inside update: its position and sets

mempool == <<txstore, feeinfo, history, edges, recent>>

updvars == <<upc, old_txids, all_txids, txs_to_add>>

abtvars == <<apc, abt_txid>>

vars == <<txstore, feeinfo, history, edges, recent, backlog_stats, now,
          daemon_txs, lock,
          upc, old_txids, all_txids, txs_to_add, apc, abt_txid,
          returned, processed_count, panicked, query, parked>>

\* the aggregate as the record the operators above work on
Aggregate ==
    [txstore |-> txstore, feeinfo |-> feeinfo, history |-> history,
     edges |-> edges, recent |-> recent, count |-> 0]

\* the aggregate becomes m
Becomes(m) ==
    /\ txstore' = m.txstore
    /\ feeinfo' = m.feeinfo
    /\ history' = m.history
    /\ edges' = m.edges
    /\ recent' = m.recent

\* the step returns nothing to a caller
NoReturn == <<"none">>

\* the step calls no add
NoAdd == 0 - 1

\* no reader has called yet
NoQuery == [op |-> "none"]

\* a thread that is not inside update
IdleUpdater == [upc |-> "idle", old_txids |-> {}, all_txids |-> {}, txs_to_add |-> <<>>]

\* Mempool::new, and what surrounds the aggregate
Start(known) ==
    /\ daemon_txs = known
    /\ txstore = <<>>
    /\ feeinfo = <<>>
    /\ history = <<>>
    /\ edges = <<>>
    /\ recent = <<>>
    /\ now = 0
    /\ backlog_stats = [stats |-> BacklogStatsDefault, at |-> 0 - BacklogStatsTtl]
    /\ lock = "free"
    /\ upc = "idle"
    /\ old_txids = {}
    /\ all_txids = {}
    /\ txs_to_add = <<>>
    /\ apc = "idle"
    /\ abt_txid = 0
    /\ returned = NoReturn
    /\ processed_count = NoAdd
    /\ panicked = FALSE
    /\ query = NoQuery
    /\ parked = IdleUpdater

\* the Daemon can report transactions 1, 2 and 3
Init == Start({1, 2, 3})

\* the Daemon can report transactions 1 and 2
InitClock == Start({1, 2})

\* time passes
Tick ==
    /\ now < MaxTime
    /\ UNCHANGED <<query, parked>>
    /\ now' = now + 1
    /\ returned' = NoReturn
    /\ processed_count' = NoAdd
    /\ UNCHANGED <<mempool, backlog_stats, daemon_txs, lock, updvars, abtvars, panicked>>

(***************************************************************************)
(* Mempool::update, one action per step between two points where another   *)
(* thread can run.  old_txids and all_txids keep the sets of the last cycle *)
(* until the next one starts.                                              *)
(***************************************************************************)
txids_to_remove == old_txids \ all_txids

txids_to_add == all_txids \ old_txids

\* step 1: the key set is captured under the read lock
Update_snapshot ==
    /\ ~panicked
    /\ UNCHANGED <<query, parked>>
    /\ upc = "idle"
    /\ lock = "free"
    /\ old_txids' = DOMAIN txstore
    /\ all_txids' = {}
    /\ txs_to_add' = <<>>
    /\ upc' = "list"
    /\ returned' = NoReturn
    /\ processed_count' = NoAdd
    /\ UNCHANGED <<mempool, backlog_stats, now, daemon_txs, lock,
                   abtvars, panicked>>

\* mutant of Update_list: a failed listing is taken for an empty mempool
\* and the snapshot is removed before the error is returned
Update_list_RemoveOnError ==
    /\ ~panicked
    /\ UNCHANGED <<query, parked>>
    /\ upc = "list"
    /\ \/ /\ returned' = <<"update", "ListFailed">>
          /\ upc' = "idle"
          /\ Becomes(Remove(Aggregate, old_txids \cap DOMAIN txstore))
          /\ UNCHANGED <<old_txids, all_txids>>
       \/ \E ids \in SUBSET daemon_txs :
            /\ all_txids' = ids
            /\ upc' = "remove"
            /\ returned' = NoReturn
            /\ old_txids' = old_txids
            /\ UNCHANGED mempool
    /\ processed_count' = NoAdd
    /\ UNCHANGED <<lock, backlog_stats, now, daemon_txs, txs_to_add, abtvars, panicked>>

\* step 2: daemon.getmempooltxids() returns, with an error or with a set
Update_list ==
    /\ ~panicked
    /\ UNCHANGED <<query, parked>>
    /\ upc = "list"
    /\ \/ /\ returned' = <<"update", "ListFailed">>
          /\ upc' = "idle"
          /\ UNCHANGED <<old_txids, all_txids>>
       \/ \E ids \in SUBSET daemon_txs :
            /\ all_txids' = ids
            /\ upc' = "remove"
            /\ returned' = NoReturn
            /\ old_txids' = old_txids
    /\ processed_count' = NoAdd
    /\ UNCHANGED <<mempool, lock, backlog_stats, now, daemon_txs, txs_to_add,
                   abtvars, panicked>>

\* mutant of Update_remove_store: an id that is no key of txstore is skipped
Update_remove_store_SkipMissing ==
    /\ ~panicked
    /\ UNCHANGED <<query, parked>>
    /\ upc = "remove"
    /\ lock = "free"
    /\ lock' = "update"
    /\ Becomes(RemoveFromStore(Aggregate, txids_to_remove))
    /\ upc' = "remove_index"
    /\ panicked' = FALSE
    /\ returned' = NoReturn
    /\ processed_count' = NoAdd
    /\ UNCHANGED <<backlog_stats, now, daemon_txs, old_txids, all_txids, txs_to_add, abtvars>>

\* step 3, first pass of remove: the write lock is taken; the ids leave
\* txstore and feeinfo, or remove panics on an id that is no key of txstore
Update_remove_store ==
    /\ ~panicked
    /\ UNCHANGED <<query, parked>>
    /\ upc = "remove"
    /\ lock = "free"
    /\ lock' = "update"
    /\ IF txids_to_remove \subseteq DOMAIN txstore
       THEN /\ Becomes(RemoveFromStore(Aggregate, txids_to_remove))
            /\ upc' = "remove_index"
            /\ panicked' = FALSE
       ELSE /\ \E done \in SUBSET (txids_to_remove \cap DOMAIN txstore) :
                    Becomes(RemoveFromStore(Aggregate, done))
            /\ upc' = "panic"
            /\ panicked' = TRUE
    /\ returned' = NoReturn
    /\ processed_count' = NoAdd
    /\ UNCHANGED <<backlog_stats, now, daemon_txs, old_txids, all_txids, txs_to_add, abtvars>>

\* mutant of Update_remove_index: the write guard outlives the statement
Update_remove_index_KeepLock ==
    /\ ~panicked
    /\ UNCHANGED <<query, parked>>
    /\ upc = "remove_index"
    /\ lock = "update"
    /\ Becomes(RemoveFromIndex(Aggregate, txids_to_remove))
    /\ lock' = "update"
    /\ upc' = "fetch"
    /\ returned' = NoReturn
    /\ processed_count' = NoAdd
    /\ UNCHANGED <<backlog_stats, now, daemon_txs, old_txids, all_txids, txs_to_add,
                   abtvars, panicked>>

\* mutant of Update_remove_index: remove recomputes the backlog summary
Update_remove_index_RefreshBacklog ==
    /\ ~panicked
    /\ UNCHANGED <<query, parked>>
    /\ upc = "remove_index"
    /\ lock = "update"
    /\ Becomes(RemoveFromIndex(Aggregate, txids_to_remove))
    /\ backlog_stats' = [stats |-> BacklogStatsNew(feeinfo), at |-> now]
    /\ lock' = "free"
    /\ upc' = "fetch"
    /\ returned' = NoReturn
    /\ processed_count' = NoAdd
    /\ UNCHANGED <<now, daemon_txs, old_txids, all_txids, txs_to_add,
                   abtvars, panicked>>

\* step 3, second pass of remove; the write lock is released
Update_remove_index ==
    /\ ~panicked
    /\ UNCHANGED <<query, parked>>
    /\ upc = "remove_index"
    /\ lock = "update"
    /\ Becomes(RemoveFromIndex(Aggregate, txids_to_remove))
    /\ lock' = "free"
    /\ upc' = "fetch"
    /\ returned' = NoReturn
    /\ processed_count' = NoAdd
    /\ UNCHANGED <<backlog_stats, now, daemon_txs, old_txids, all_txids, txs_to_add,
                   abtvars, panicked>>

\* step 4: daemon.gettransactions(txids_to_add) returns, with an error or
\* with some of the requested transactions in some order
Update_fetch ==
    /\ ~panicked
    /\ UNCHANGED <<query, parked>>
    /\ upc = "fetch"
    /\ \/ /\ returned' = <<"update", "FetchFailed", Cardinality(txids_to_add)>>
          /\ upc' = "idle"
          /\ txs_to_add' = <<>>
          /\ UNCHANGED <<old_txids, all_txids>>
       \/ \E got \in SUBSET txids_to_add : \E order \in Perms(got) :
            /\ txs_to_add' = [k \in DOMAIN order |-> TxData[order[k]]]
            /\ upc' = "add"
            /\ returned' = NoReturn
            /\ UNCHANGED <<old_txids, all_txids>>
    /\ processed_count' = NoAdd
    /\ UNCHANGED <<mempool, lock, backlog_stats, now, daemon_txs, abtvars, panicked>>

\* mutant of RefreshBacklog: the age of the cached summary is not looked at
RefreshBacklog_Always(cached, fees) ==
    [stats |-> BacklogStatsNew(fees), at |-> now]

\* the cached backlog summary after the check of its age
RefreshBacklog(cached, fees) ==
    IF now - cached.at > BacklogStatsTtl
    THEN [stats |-> BacklogStatsNew(fees), at |-> now]
    ELSE cached

\* step 5: under the write lock, add the fetched transactions and refresh
\* the backlog summary when it has expired
Update_add ==
    /\ ~panicked
    /\ UNCHANGED <<query, parked>>
    /\ upc = "add"
    /\ lock = "free"
    /\ \E orders \in SpendOrders :
         LET m == Add(Aggregate, txs_to_add, orders)
         IN  /\ Becomes(m)
             /\ processed_count' = m.count
             /\ backlog_stats' = RefreshBacklog(backlog_stats, m.feeinfo)
    /\ returned' = <<"update", "Ok">>
    /\ upc' = "idle"
    /\ txs_to_add' = <<>>
    /\ UNCHANGED <<old_txids, all_txids>>
    /\ UNCHANGED <<now, daemon_txs, lock, abtvars, panicked>>

(***************************************************************************)
(* Mempool::add_by_txid, called on the aggregate borrowed mutably: the     *)
(* caller holds the write lock from the call to the return.                *)
(***************************************************************************)
\* the call: nothing to do for a txid already in txstore, otherwise
\* daemon.getmempooltx(txid) is sent
AddByTxid_call(txid) ==
    /\ ~panicked
    /\ UNCHANGED <<query, parked>>
    /\ apc = "idle"
    /\ lock = "free"
    /\ IF txid \in DOMAIN txstore
       THEN /\ returned' = <<"add_by_txid", "Ok", txid>>
            /\ apc' = "idle"
            /\ abt_txid' = 0
            /\ lock' = "free"
       ELSE /\ returned' = NoReturn
            /\ apc' = "rpc"
            /\ abt_txid' = txid
            /\ lock' = "add_by_txid"
    /\ processed_count' = NoAdd
    /\ UNCHANGED <<mempool, backlog_stats, now, daemon_txs, updvars, panicked>>

\* an add_by_txid that reports success whatever add returns
AddByTxid_return_AlwaysOk ==
    /\ ~panicked
    /\ UNCHANGED <<query, parked>>
    /\ apc = "rpc"
    /\ lock = "add_by_txid"
    /\ \/ /\ returned' = <<"add_by_txid", "Ok", abt_txid>>
          /\ processed_count' = NoAdd
          /\ UNCHANGED mempool
       \/ \E orders \in SpendOrders :
            LET m == Add(Aggregate, <<TxData[abt_txid]>>, orders)
            IN  /\ Becomes(m)
                /\ processed_count' = m.count
                /\ returned' = <<"add_by_txid", "Ok", abt_txid>>
    /\ apc' = "idle"
    /\ abt_txid' = 0
    /\ lock' = "free"
    /\ UNCHANGED <<backlog_stats, now, daemon_txs, updvars, panicked>>

\* mutant of AddByTxid_return: a transaction that add does not index is
\* taken out of txstore again
AddByTxid_return_Atomic ==
    /\ ~panicked
    /\ UNCHANGED <<query, parked>>
    /\ apc = "rpc"
    /\ lock = "add_by_txid"
    /\ \/ /\ returned' = <<"add_by_txid", "Ok", abt_txid>>
          /\ processed_count' = NoAdd
          /\ UNCHANGED mempool
       \/ \E orders \in SpendOrders :
            LET m == Add(Aggregate, <<TxData[abt_txid]>>, orders)
            IN  /\ Becomes(IF m.count = 0 THEN Aggregate ELSE m)
                /\ processed_count' = m.count
                /\ returned' = <<"add_by_txid",
                                 IF m.count = 0 THEN "MissingParents" ELSE "Ok",
                                 abt_txid>>
    /\ apc' = "idle"
    /\ abt_txid' = 0
    /\ lock' = "free"
    /\ UNCHANGED <<backlog_stats, now, daemon_txs, updvars, panicked>>

\* mutant of AddByTxid_return: the error of daemon.getmempooltx is returned
AddByTxid_return_PropagateError ==
    /\ ~panicked
    /\ UNCHANGED <<query, parked>>
    /\ apc = "rpc"
    /\ lock = "add_by_txid"
    /\ \/ /\ returned' = <<"add_by_txid", "FetchFailed", abt_txid>>
          /\ processed_count' = NoAdd
          /\ UNCHANGED mempool
       \/ \E orders \in SpendOrders :
            LET m == Add(Aggregate, <<TxData[abt_txid]>>, orders)
            IN  /\ Becomes(m)
                /\ processed_count' = m.count
                /\ returned' = <<"add_by_txid",
                                 IF m.count = 0 THEN "MissingParents" ELSE "Ok",
                                 abt_txid>>
    /\ apc' = "idle"
    /\ abt_txid' = 0
    /\ lock' = "free"
    /\ UNCHANGED <<backlog_stats, now, daemon_txs, updvars, panicked>>

\* daemon.getmempooltx returns: an error is dropped, a transaction is added
AddByTxid_return ==
    /\ ~panicked
    /\ UNCHANGED <<query, parked>>
    /\ apc = "rpc"
    /\ lock = "add_by_txid"
    /\ \/ /\ returned' = <<"add_by_txid", "Ok", abt_txid>>
          /\ processed_count' = NoAdd
          /\ UNCHANGED mempool
       \/ \E orders \in SpendOrders :
            LET m == Add(Aggregate, <<TxData[abt_txid]>>, orders)
            IN  /\ Becomes(m)
                /\ processed_count' = m.count
                /\ returned' = <<"add_by_txid",
                                 IF m.count = 0 THEN "MissingParents" ELSE "Ok",
                                 abt_txid>>
    /\ apc' = "idle"
    /\ abt_txid' = 0
    /\ lock' = "free"
    /\ UNCHANGED <<backlog_stats, now, daemon_txs, updvars, panicked>>

Next ==
    \/ Update_snapshot
    \/ Update_list
    \/ Update_remove_store
    \/ Update_remove_index
    \/ Update_fetch
    \/ Update_add
    \/ \E txid \in daemon_txs : AddByTxid_call(txid)
    \/ AddByTxid_return

\* the aggregate under one synchronizer and one caller of add_by_txid; the
\* clock stands still
Spec == Init /\ [][Next]_vars

NextClock ==
    \/ Tick
    \/ Next

\* the same with the clock running, against a Daemon that knows two
\* transactions
SpecClock == InitClock /\ [][NextClock]_vars

\* the synchronizer alone: update cycles one after the other
NextUpdate ==
    \/ Update_snapshot
    \/ Update_list
    \/ Update_remove_store
    \/ Update_remove_index
    \/ Update_fetch
    \/ Update_add

SpecUpdate == Init /\ [][NextUpdate]_vars

(***************************************************************************)
(* Two threads inside Mempool::update on the same aggregate.  upc,         *)
(* old_txids, all_txids and txs_to_add are those of the thread that takes  *)
(* the next step, parked holds those of the other one; the scheduler       *)
(* switches between them at any point.                                     *)
(***************************************************************************)
Switch ==
    /\ ~panicked
    /\ parked' = [upc |-> upc, old_txids |-> old_txids, all_txids |-> all_txids,
                  txs_to_add |-> txs_to_add]
    /\ upc' = parked.upc
    /\ old_txids' = parked.old_txids
    /\ all_txids' = parked.all_txids
    /\ txs_to_add' = parked.txs_to_add
    /\ returned' = NoReturn
    /\ processed_count' = NoAdd
    /\ UNCHANGED <<mempool, backlog_stats, now, daemon_txs, lock, abtvars, panicked,
                   query>>

NextTwo ==
    \/ Switch
    \/ NextUpdate

\* the Daemon can report transactions 1 and 2
SpecTwo == InitClock /\ [][NextTwo]_vars

(***************************************************************************)
(* Mempool::add called directly with any batch of the transactions the     *)
(* Daemon can report, repetitions included; query records the batch of the *)
(* last call.                                                              *)
(***************************************************************************)
\* the longest batch
MaxBatch == 2

RECURSIVE SeqsUpTo(_, _)
SeqsUpTo(S, n) ==
    IF n = 0 THEN {<<>>}
    ELSE LET shorter == SeqsUpTo(S, n - 1)
         IN  shorter \cup {Append(b, x) : b \in {c \in shorter : Len(c) = n - 1}, x \in S}

Add_call ==
    /\ ~panicked
    /\ \E batch \in SeqsUpTo(daemon_txs, MaxBatch) : \E orders \in SpendOrders :
         LET m == Add(Aggregate, [k \in DOMAIN batch |-> TxData[batch[k]]], orders)
         IN  /\ Becomes(m)
             /\ processed_count' = m.count
             /\ query' = [op |-> "add", batch |-> batch]
    /\ returned' = NoReturn
    /\ UNCHANGED <<backlog_stats, now, daemon_txs, lock, updvars, abtvars, panicked,
                   parked>>

SpecAdd == Init /\ [][Add_call]_vars

(***************************************************************************)
(* The query surface, on the aggregate m.  An Option is a sequence of      *)
(* length at most one.                                                     *)
(***************************************************************************)
None == <<>>

Some(x) == <<x>>

\* Iterator::take / Vec::truncate
Take(seq, n) == SubSeq(seq, 1, IF Len(seq) <= n THEN Len(seq) ELSE n)

\* Iterator::skip
Skip(seq, n) == SubSeq(seq, n + 1, Len(seq))

\* Mempool::lookup_txo
lookup_txo(m, outpoint) ==
    LET txos == lookup_txos(m.txstore, {outpoint})
    IN  IF outpoint \in DOMAIN txos THEN Some(txos[outpoint]) ELSE None

\* Mempool::has_spend
has_spend(m, outpoint) == outpoint \in DOMAIN m.edges

\* TxHistoryInfo::get_funded_outpoint
get_funded_outpoint(entry) == OutPoint(get_txid(entry), entry.vout)

\* the comparator of utxo: b.txid.cmp(a.txid).then(b.vout.cmp(a.vout)) is
\* Less, a sorts before b
SortsBefore(a, b) == a.txid > b.txid \/ (a.txid = b.txid /\ a.vout > b.vout)

\* x is placed in front of the first element it sorts before
RECURSIVE InsertSorted(_, _)
InsertSorted(sorted, x) ==
    IF sorted = <<>> THEN <<x>>
    ELSE IF SortsBefore(x, Head(sorted)) THEN <<x>> \o sorted
    ELSE <<Head(sorted)>> \o InsertSorted(Tail(sorted), x)

\* Vec::sort_by (stable) with the comparator of utxo
RECURSIVE sort_utxos(_)
sort_utxos(utxos) ==
    IF utxos = <<>> THEN <<>>
    ELSE InsertSorted(sort_utxos(SubSeq(utxos, 1, Len(utxos) - 1)),
                      utxos[Len(utxos)])

\* mutant of unspent_sorted: the spend edges are not consulted
unspent_sorted_IgnoreSpends(m, scripthash) ==
    IF scripthash \notin DOMAIN m.history THEN <<>>
    ELSE LET entries == m.history[scripthash]
             unspent(entry) ==
                 /\ entry.kind = "Funding"
                 /\ lookup_txo(m, get_funded_outpoint(entry)) # None
             kept == SelectSeq(entries, unspent)
         IN  sort_utxos([k \in DOMAIN kept |->
                            [txid  |-> get_txid(kept[k]),
                             vout  |-> kept[k].vout,
                             value |-> kept[k].value]])

\* the first part of utxo: the Funding entries of the bucket whose output
\* lookup_txo finds and that no edge spends, sorted
unspent_sorted(m, scripthash) ==
    IF scripthash \notin DOMAIN m.history THEN <<>>
    ELSE LET entries == m.history[scripthash]
             unspent(entry) ==
                 /\ entry.kind = "Funding"
                 /\ lookup_txo(m, get_funded_outpoint(entry)) # None
                 /\ ~has_spend(m, get_funded_outpoint(entry))
             kept == SelectSeq(entries, unspent)
         IN  sort_utxos([k \in DOMAIN kept |->
                            [txid  |-> get_txid(kept[k]),
                             vout  |-> kept[k].vout,
                             value |-> kept[k].value]])

\* mutant of utxo: the page starts at the cursor itself
utxo_FromCursor(m, scripthash, after_outpoint, limit) ==
    LET utxos == unspent_sorted(m, scripthash)
        at(k) == /\ utxos[k].txid = after_outpoint[1].txid
                 /\ utxos[k].vout = after_outpoint[1].vout
        found == {k \in DOMAIN utxos : after_outpoint # None /\ at(k)}
    IN  IF found # {}
        THEN LET pos == CHOOSE k \in found : \A j \in found : k <= j
             IN  Take(Skip(utxos, pos - 1), limit)
        ELSE Take(utxos, limit)

\* Mempool::utxo
utxo(m, scripthash, after_outpoint, limit) ==
    LET utxos == unspent_sorted(m, scripthash)
        at(k) == /\ utxos[k].txid = after_outpoint[1].txid
                 /\ utxos[k].vout = after_outpoint[1].vout
        found == {k \in DOMAIN utxos : after_outpoint # None /\ at(k)}
    IN  IF found # {}
        THEN LET pos == CHOOSE k \in found : \A j \in found : k <= j
             IN  Take(Skip(utxos, pos), limit)
        ELSE Take(utxos, limit)

\* Itertools::unique: an element already seen is dropped
RECURSIVE unique(_, _)
unique(seq, seen) ==
    IF seq = <<>> THEN <<>>
    ELSE IF Head(seq) \in seen THEN unique(Tail(seq), seen)
    ELSE <<Head(seq)>> \o unique(Tail(seq), seen \cup {Head(seq)})

\* mutant of skip_while: nothing is skipped when the last seen txid does not
\* occur
RECURSIVE skip_while_Fallback(_, _)
skip_while_Fallback(seq, last_seen_txid) ==
    IF seq = <<>> \/ last_seen_txid = None THEN seq
    ELSE IF \A k \in DOMAIN seq : seq[k] # last_seen_txid[1] THEN seq
    ELSE IF Head(seq) # last_seen_txid[1]
         THEN skip_while_Fallback(Tail(seq), last_seen_txid)
    ELSE seq

\* Iterator::skip_while with the closure of _history: with a last seen txid,
\* the elements in front of its first occurrence are skipped
RECURSIVE skip_while(_, _)
skip_while(seq, last_seen_txid) ==
    IF seq = <<>> \/ last_seen_txid = None THEN seq
    ELSE IF Head(seq) # last_seen_txid[1] THEN skip_while(Tail(seq), last_seen_txid)
    ELSE seq

\* what a reader gets when expect("missing mempool tx") panics
MissingMempoolTx == <<[panic |-> "missing mempool tx"]>>

\* mutant of _history: the last seen txid itself is not skipped
history_entries_KeepLast(m, entries, last_seen_txid, limit) ==
    LET txids == Take(skip_while(unique([k \in DOMAIN entries |-> get_txid(entries[k])],
                                        {}),
                                 last_seen_txid),
                      limit)
    IN  IF \E k \in DOMAIN txids : txids[k] \notin DOMAIN m.txstore
        THEN MissingMempoolTx
        ELSE [k \in DOMAIN txids |-> m.txstore[txids[k]]]

\* Mempool::_history
history_entries(m, entries, last_seen_txid, limit) ==
    LET txids == Take(Skip(skip_while(unique([k \in DOMAIN entries |->
                                                get_txid(entries[k])], {}),
                                      last_seen_txid),
                           IF last_seen_txid # None THEN 1 ELSE 0),
                      limit)
    IN  IF \E k \in DOMAIN txids : txids[k] \notin DOMAIN m.txstore
        THEN MissingMempoolTx
        ELSE [k \in DOMAIN txids |-> m.txstore[txids[k]]]

\* Mempool::history
history_of(m, scripthash, last_seen_txid, limit) ==
    IF scripthash \notin DOMAIN m.history THEN <<>>
    ELSE history_entries(m, m.history[scripthash], last_seen_txid, limit)

\* the entries of the buckets of scripthashes, in the order of scripthashes;
\* a script hash without a bucket gives none (filter_map, flat_map)
RECURSIVE group_entries(_, _)
group_entries(m, scripthashes) ==
    IF scripthashes = <<>> THEN <<>>
    ELSE (IF Head(scripthashes) \in DOMAIN m.history
          THEN m.history[Head(scripthashes)] ELSE <<>>)
         \o group_entries(m, Tail(scripthashes))

\* Mempool::history_group: from unique() on it is _history
history_group(m, scripthashes, last_seen_txid, limit) ==
    history_entries(m, group_entries(m, scripthashes), last_seen_txid, limit)

\* Mempool::history_txids
history_txids(m, scripthash, limit) ==
    IF scripthash \notin DOMAIN m.history THEN <<>>
    ELSE LET entries == m.history[scripthash]
         IN  Take(unique([k \in DOMAIN entries |-> get_txid(entries[k])], {}), limit)

\* ScriptStats::default
ScriptStatsDefault ==
    [tx_count |-> 0, funded_txo_count |-> 0, funded_txo_sum |-> 0,
     spent_txo_count |-> 0, spent_txo_sum |-> 0]

\* the loop of stats over the entries of a bucket
RECURSIVE stats_fold(_, _, _)
stats_fold(acc, seen_txids, entries) ==
    IF entries = <<>> THEN acc
    ELSE LET entry == Head(entries)
             counted == [acc EXCEPT !.tx_count =
                            IF get_txid(entry) \in seen_txids THEN @ ELSE @ + 1]
             summed == IF entry.kind = "Funding"
                       THEN [counted EXCEPT !.funded_txo_count = @ + 1,
                                            !.funded_txo_sum = @ + entry.value]
                       ELSE [counted EXCEPT !.spent_txo_count = @ + 1,
                                            !.spent_txo_sum = @ + entry.value]
         IN  stats_fold(summed, seen_txids \cup {get_txid(entry)}, Tail(entries))

\* Mempool::stats
stats(m, scripthash) ==
    IF scripthash \notin DOMAIN m.history THEN ScriptStatsDefault
    ELSE stats_fold(ScriptStatsDefault, {}, m.history[scripthash])

\* Mempool::lookup_txn
lookup_txn(m, txid) ==
    IF txid \in DOMAIN m.txstore THEN Some(m.txstore[txid]) ELSE None

\* Mempool::lookup_spend
lookup_spend(m, outpoint) ==
    IF outpoint \in DOMAIN m.edges
    THEN Some([txid |-> m.edges[outpoint][1], vin |-> m.edges[outpoint][2],
               confirmed |-> None])
    ELSE None

\* Mempool::get_tx_fee
get_tx_fee(m, txid) ==
    IF txid \in DOMAIN m.feeinfo THEN Some(m.feeinfo[txid].fee) ELSE None

\* the keys of a BTreeMap in the order in which it iterates: ascending
RECURSIVE SortedKeys(_)
SortedKeys(S) ==
    IF S = {} THEN <<>>
    ELSE LET least == CHOOSE x \in S : \A y \in S : x <= y
         IN  <<least>> \o SortedKeys(S \ {least})

\* mutant of txids_page: the range starts at the given txid itself
txids_page_Included(m, n, start) ==
    Take(SortedKeys({t \in DOMAIN m.txstore : start = None \/ t >= start[1]}), n)

\* Mempool::txids_page: the range (Excluded(start) or Unbounded, Unbounded)
\* of txstore, n keys of it
txids_page(m, n, start) ==
    Take(SortedKeys({t \in DOMAIN m.txstore : start = None \/ t > start[1]}), n)

(***************************************************************************)
(* Readers.  A reader holds the lock shared for the whole of its call, so  *)
(* a call is one step, taken while no writer holds the lock; query keeps   *)
(* the call and what it returned.  What a call returns depends on the      *)
(* aggregate alone, so one call is followed from every aggregate.          *)
(***************************************************************************)
EmptyAggregate ==
    [txstore |-> <<>>, feeinfo |-> <<>>, history |-> <<>>, edges |-> <<>>,
     recent |-> <<>>, count |-> 0]

\* the sequences of distinct elements of S
Batches(S) == UNION {Perms(T) : T \in SUBSET S}

\* mutant of AfterCycle: the transactions stored without being indexed are
\* removed as well
AfterCycle_DropUnindexed(m, all, got, orders) ==
    Add(Remove(m, (DOMAIN m.txstore \ all) \cup (DOMAIN m.txstore \ DOMAIN m.feeinfo)),
        [k \in DOMAIN got |-> TxData[got[k]]], orders)

\* the aggregate after a successful update cycle in which the Daemon lists
\* all and returns the transactions got
AfterCycle(m, all, got, orders) ==
    Add(Remove(m, DOMAIN m.txstore \ all),
        [k \in DOMAIN got |-> TxData[got[k]]], orders)

\* the aggregate after two successful update cycles against a Daemon that
\* can report every transaction of TxData; in the first cycle it returns
\* all the transactions it lists, in the second some of them
InitQuery ==
    \E all1 \in SUBSET Txids : \E got1 \in Perms(all1) :
    \E all2 \in SUBSET Txids : \E orders \in SpendOrders :
        LET m1 == AfterCycle(EmptyAggregate, all1, got1, orders)
        IN  \E got2 \in Batches(all2 \ DOMAIN m1.txstore) :
              LET m2 == AfterCycle(m1, all2, got2, orders)
              IN  /\ daemon_txs = Txids
                  /\ txstore = m2.txstore
                  /\ feeinfo = m2.feeinfo
                  /\ history = m2.history
                  /\ edges = m2.edges
                  /\ recent = m2.recent
                  /\ now = 0
                  /\ backlog_stats = [stats |-> BacklogStatsDefault,
                                      at |-> 0 - BacklogStatsTtl]
                  /\ lock = "free"
                  /\ upc = "idle"
                  /\ old_txids = DOMAIN m1.txstore
                  /\ all_txids = all2
                  /\ txs_to_add = <<>>
                  /\ apc = "idle"
                  /\ abt_txid = 0
                  /\ returned = NoReturn
                  /\ processed_count = NoAdd
                  /\ panicked = FALSE
                  /\ query = NoQuery
                  /\ parked = IdleUpdater

\* the scripts a reader asks about
QueryScripts == {compute_script_hash(s) : s \in {"S", "S2", "none"}}

\* the cursors a reader passes to utxo
QueryOutpoints ==
    {None, Some(OutPoint(1, 0)), Some(OutPoint(3, 0)), Some(OutPoint(4, 0)),
     Some(OutPoint(4, 1)), Some(OutPoint(9, 0))}

\* what a reader leaves alone
readervars ==
    <<txstore, feeinfo, history, edges, recent, backlog_stats, now, daemon_txs,
      lock, upc, old_txids, all_txids, txs_to_add, apc, abt_txid,
      returned, processed_count, panicked, parked>>

Query_utxo ==
    /\ lock = "free"
    /\ query = NoQuery
    /\ \E sh \in QueryScripts, cursor \in QueryOutpoints, limit \in 0..MaxLimit :
          query' = [op |-> "utxo", scripthash |-> sh, after_outpoint |-> cursor,
                    limit |-> limit,
                    result |-> utxo(Aggregate, sh, cursor, limit)]
    /\ UNCHANGED readervars

\* a client pages through the txids: the first page, and after a page that
\* is not empty the page that starts after its last txid; seen is what the
\* pages so far have listed
Query_txids_page_first ==
    /\ lock = "free"
    /\ query = NoQuery
    /\ \E n \in 0..MaxLimit :
          LET page == txids_page(Aggregate, n, None)
          IN  query' = [op |-> "txids_page", n |-> n, start |-> None,
                        result |-> page, seen |-> page]
    /\ UNCHANGED readervars

Query_txids_page_next ==
    /\ lock = "free"
    /\ query.op = "txids_page"
    /\ query.result # <<>>
    /\ LET last == query.result[Len(query.result)]
           page == txids_page(Aggregate, query.n, Some(last))
       IN  query' = [op |-> "txids_page", n |-> query.n, start |-> Some(last),
                     result |-> page, seen |-> query.seen \o page]
    /\ UNCHANGED readervars

\* a client reads the history of a script in two pages: the first, and the
\* one after the last transaction of the first
Query_history_first ==
    /\ lock = "free"
    /\ query = NoQuery
    /\ \E sh \in QueryScripts, limit \in 0..MaxLimit :
          LET page == history_of(Aggregate, sh, None, limit)
          IN  query' = [op |-> "history", scripthash |-> sh,
                        last_seen_txid |-> None, limit |-> limit,
                        result |-> page, seen |-> page]
    /\ UNCHANGED readervars

Query_history_next ==
    /\ lock = "free"
    /\ query.op = "history"
    /\ query.last_seen_txid = None
    /\ query.result # <<>>
    /\ query.result # MissingMempoolTx
    /\ LET last == txid_of(query.result[Len(query.result)])
           page == history_of(Aggregate, query.scripthash, Some(last), query.limit)
       IN  query' = [op |-> "history", scripthash |-> query.scripthash,
                     last_seen_txid |-> Some(last), limit |-> query.limit,
                     result |-> page, seen |-> query.seen \o page]
    /\ UNCHANGED readervars

NextQuery ==
    \/ Query_utxo
    \/ Query_history_first
    \/ Query_history_next
    \/ Query_txids_page_first
    \/ Query_txids_page_next

\* readers on an aggregate that no writer changes
SpecQuery == InitQuery /\ [][NextQuery]_vars

(***************************************************************************)
(* A reader that resumes a history from any txid: history and              *)
(* history_group called with every last seen txid, on the aggregates of    *)
(* InitQuery.                                                              *)
(***************************************************************************)
\* the last seen txids a reader passes: none, every transaction of TxData
\* and the txid of a confirmed transaction
ResumeTxids == {None} \cup {Some(t) : t \in Txids \cup {9}}

\* the groups of script hashes a reader passes to history_group
ResumeGroups ==
    {<<compute_script_hash("S"), compute_script_hash("S2")>>,
     <<compute_script_hash("S2"), compute_script_hash("S")>>,
     <<compute_script_hash("S2"), compute_script_hash("none"),
       compute_script_hash("S")>>}

Query_history_at ==
    /\ lock = "free"
    /\ query = NoQuery
    /\ \E sh \in QueryScripts, last \in ResumeTxids, limit \in 0..MaxLimit :
          query' = [op |-> "history_at", scripthashes |-> <<sh>>,
                    last_seen_txid |-> last, limit |-> limit,
                    result |-> history_of(Aggregate, sh, last, limit)]
    /\ UNCHANGED readervars

Query_history_group ==
    /\ lock = "free"
    /\ query = NoQuery
    /\ \E group \in ResumeGroups, last \in ResumeTxids, limit \in 0..MaxLimit :
          query' = [op |-> "history_group", scripthashes |-> group,
                    last_seen_txid |-> last, limit |-> limit,
                    result |-> history_group(Aggregate, group, last, limit)]
    /\ UNCHANGED readervars

NextResume ==
    \/ Query_history_at
    \/ Query_history_group

SpecResume == InitQuery /\ [][NextResume]_vars

(***************************************************************************)
(* Successful update cycles one after the other with no other writer in    *)
(* between: a whole cycle is one step.  After the step old_txids is the    *)
(* snapshot the cycle took, all_txids what the Daemon listed and           *)
(* txs_to_add what it returned of the transactions asked for.              *)
(***************************************************************************)
Update_cycle ==
    /\ ~panicked
    /\ upc = "idle" /\ apc = "idle" /\ lock = "free"
    /\ \E all \in SUBSET daemon_txs : \E got \in Batches(all \ DOMAIN txstore) :
       \E orders \in SpendOrders :
          LET m == AfterCycle(Aggregate, all, got, orders)
          IN  /\ Becomes(m)
              /\ processed_count' = m.count
              /\ backlog_stats' = RefreshBacklog(backlog_stats, m.feeinfo)
              /\ old_txids' = DOMAIN txstore
              /\ all_txids' = all
              /\ txs_to_add' = [k \in DOMAIN got |-> TxData[got[k]]]
    /\ returned' = <<"update", "Ok">>
    /\ UNCHANGED <<now, daemon_txs, lock, upc, abtvars, panicked, query, parked>>

SpecCycles == Init /\ [][Update_cycle]_vars

(***************************************************************************)
(* The invariants of the aggregate.                                        *)
(***************************************************************************)
\* the txids referenced by the entries of the history buckets
HistoryTxids ==
    UNION {{get_txid(history[sh][i]) : i \in DOMAIN history[sh]} : sh \in DOMAIN history}

\* the txids stored as the values of the edges
EdgeTxids == {edges[op][1] : op \in DOMAIN edges}

\* no writer is inside its critical section
ReaderVisible == lock = "free"

IndexClosure == HistoryTxids \cup EdgeTxids \subseteq DOMAIN txstore

EdgeConsistent ==
    \A op \in DOMAIN edges :
        LET txid == edges[op][1]
            vin == edges[op][2]
        IN  /\ txid \in DOMAIN txstore
            /\ vin + 1 \in DOMAIN txstore[txid].input
            /\ txstore[txid].input[vin + 1].previous_output = op

FeeinfoInStore == DOMAIN feeinfo \subseteq DOMAIN txstore

NoEmptyBucket == \A sh \in DOMAIN history : history[sh] # <<>>

(***************************************************************************)
(* C1.  Index closure: whenever the write lock is not held, every txid     *)
(* referenced by an entry of a history bucket and every txid stored as the *)
(* value of an edge is a key of txstore; update cycles aborted by a Daemon *)
(* error are among the behaviours.                                         *)
(***************************************************************************)
C1_IndexClosure == ReaderVisible => IndexClosure

\* a removal has gone through, the fetch after it failed, and history and
\* edges still describe transactions
C1_Witness ==
    /\ ReaderVisible
    /\ returned[1] = "update" /\ returned[2] = "FetchFailed"
    /\ txids_to_remove # {}
    /\ HistoryTxids # {}
    /\ EdgeTxids # {}

(***************************************************************************)
(* C2.  Spend-edge consistency: whenever the write lock is not held, every *)
(* edge key -> (txid, vin) has txid in txstore, vin a valid input index of *)
(* that transaction, and that input's previous_output equal to the key.    *)
(***************************************************************************)
C2_EdgeConsistent == ReaderVisible => EdgeConsistent

\* the second input of transaction 3 has its edge
C2_Witness ==
    /\ ReaderVisible
    /\ OutPoint(9, 0) \in DOMAIN edges
    /\ edges[OutPoint(9, 0)] = <<3, 1>>

(***************************************************************************)
(* C3.  Whenever the write lock is not held, every key of feeinfo is a key *)
(* of txstore.                                                             *)
(***************************************************************************)
C3_FeeinfoInStore == ReaderVisible => FeeinfoInStore

\* an indexed transaction has just been removed and another one is left
C3_Witness ==
    /\ ReaderVisible
    /\ upc = "fetch"
    /\ txids_to_remove # {}
    /\ feeinfo # <<>>

(***************************************************************************)
(* C4.  history never holds an empty bucket, and the second pass of remove *)
(* deletes every bucket all of whose entries belong to removed ids.        *)
(***************************************************************************)
EmptiedBuckets ==
    {sh \in DOMAIN history :
        \A i \in DOMAIN history[sh] : get_txid(history[sh][i]) \in txids_to_remove}

C4_NoEmptyBucket ==
    /\ []NoEmptyBucket
    /\ [][(upc = "remove_index" /\ upc' = "fetch")
            => EmptiedBuckets \cap DOMAIN history' = {}]_vars

\* remove is about to empty a bucket while another bucket survives
C4_Witness ==
    /\ upc = "remove_index"
    /\ EmptiedBuckets # {}
    /\ EmptiedBuckets # DOMAIN history

(***************************************************************************)
(* C5.  All-or-nothing indexing: a transaction newly admitted by add with  *)
(* a non-sentinel input whose previous_output is missing from the resolver *)
(* result stays in txstore, is not counted in the value add returns, and   *)
(* gets no feeinfo record, history entry, edge or recent entry.            *)
(***************************************************************************)
\* the batch handed to add by the step being taken, <<>> when it calls none
AddBatch ==
    IF upc = "add" /\ upc' = "idle" THEN txs_to_add
    ELSE IF apc = "rpc" /\ apc' = "idle" /\ processed_count' # NoAdd
         THEN <<TxData[abt_txid]>>
    ELSE <<>>

\* the txids the add of this step admits to txstore
NewlyAdmitted == {txid_of(AddBatch[k]) : k \in DOMAIN AddBatch} \ DOMAIN txstore

\* those of them with a previous output the resolver does not return
Unresolved ==
    LET txos == lookup_txos(txstore', get_prevouts(txstore', NewlyAdmitted))
    IN  {t \in NewlyAdmitted :
            \E i \in DOMAIN TxData[t].input :
                /\ has_prevout(TxData[t].input[i])
                /\ TxData[t].input[i].previous_output \notin DOMAIN txos}

C5_AllOrNothing ==
    [][\A t \in Unresolved :
          /\ t \in DOMAIN txstore'
          /\ t \notin DOMAIN feeinfo'
          /\ t \notin HistoryTxids'
          /\ t \notin EdgeTxids'
          /\ processed_count' <= Cardinality(NewlyAdmitted \ Unresolved)
          /\ \A k \in DOMAIN recent' :
                recent'[k].txid = t
                    => /\ k > processed_count'
                       /\ k - processed_count' \in DOMAIN recent
                       /\ recent'[k] = recent[k - processed_count']]_vars

\* add has just left transactions 2 and 3 unindexed: their parent 1 was
\* indexed and removed before, its overview is still in recent
C5_Witness ==
    /\ returned = <<"update", "Ok">>
    /\ processed_count = 0
    /\ {2, 3} \subseteq DOMAIN txstore
    /\ feeinfo = <<>>
    /\ 1 \notin DOMAIN txstore
    /\ recent # <<>>

(***************************************************************************)
(* C6.  Late indexing (scenario S4): transaction 2 was stored unindexed    *)
(* because its parent 1 was in neither the mempool nor ChainQuery; after a *)
(* later cycle in which the Daemon reports 1 and 2 and transaction 1 is    *)
(* fetched, transaction 2 is indexed: it has its feeinfo record, its       *)
(* history entries and its spend edge.                                     *)
(***************************************************************************)
Fetched == {txid_of(txs_to_add[k]) : k \in DOMAIN txs_to_add}

C6_LateIndexing ==
    [][(/\ upc = "add" /\ upc' = "idle"
        /\ all_txids = {1, 2}
        /\ 2 \in old_txids /\ 2 \in DOMAIN txstore /\ 2 \notin DOMAIN feeinfo
        /\ 1 \notin old_txids
        /\ Fetched = {1})
          => /\ 2 \in DOMAIN feeinfo'
             /\ 2 \in HistoryTxids'
             /\ OutPoint(1, 0) \in DOMAIN edges'
             /\ edges'[OutPoint(1, 0)] = <<2, 0>>]_vars

(***************************************************************************)
(* C7.  Coinbase-sentinel inputs never produce a spend edge: the sentinel  *)
(* OutPoint is never a key of edges, and when txstore holds transaction 1  *)
(* alone (scenario S2) edges is empty.                                     *)
(***************************************************************************)
C7_NoSentinelEdge ==
    /\ Sentinel \notin DOMAIN edges
    /\ (ReaderVisible /\ DOMAIN txstore = {1}) => edges = <<>>

(***************************************************************************)
(* C8.  No writer has a Daemon call in flight while it holds the write     *)
(* lock: neither update during its two calls nor add_by_txid during its    *)
(* single-transaction fetch.                                               *)
(***************************************************************************)
C8_NoRpcUnderWriteLock ==
    /\ upc \in {"list", "fetch"} => lock # "update"
    /\ apc = "rpc" => lock # "add_by_txid"

(***************************************************************************)
(* C9.  When the listing of the Daemon fails, update returns the error and *)
(* neither step taken by that update (the snapshot, the failed call) has   *)
(* changed txstore, feeinfo, history, edges, recent or backlog_stats.      *)
(***************************************************************************)
C9_ListFailure ==
    [][((upc = "idle" /\ upc' = "list") \/ (upc = "list" /\ upc' = "idle"))
          => /\ UNCHANGED <<txstore, feeinfo, history, edges, recent, backlog_stats>>
             /\ upc' = "idle" => returned' = <<"update", "ListFailed">>]_vars

\* update has just returned the listing error on a non-empty aggregate whose
\* backlog summary has been computed
C9_Witness ==
    /\ returned = <<"update", "ListFailed">>
    /\ old_txids # {}
    /\ feeinfo # <<>>
    /\ backlog_stats.stats.count > 0

(***************************************************************************)
(* C10.  When the fetch of the Daemon fails, update returns the error; the *)
(* ids of to_remove are gone from txstore, feeinfo, history and edges, no  *)
(* id of to_add is in txstore, and index closure, edge consistency,        *)
(* feeinfo within txstore and no empty bucket hold.  Checked for update    *)
(* cycles running one after the other.                                     *)
(***************************************************************************)
FetchFailed == returned[1] = "update" /\ returned[2] = "FetchFailed"

C10_FetchFailure ==
    /\ [](FetchFailed =>
            /\ txids_to_remove \cap
                 (DOMAIN txstore \cup DOMAIN feeinfo \cup HistoryTxids \cup EdgeTxids) = {}
            /\ txids_to_add \cap DOMAIN txstore = {}
            /\ DOMAIN txstore = old_txids \ txids_to_remove
            /\ IndexClosure /\ EdgeConsistent /\ FeeinfoInStore /\ NoEmptyBucket)
    /\ [][(upc = "fetch" /\ upc' = "idle")
            => /\ FetchFailed'
               /\ returned'[3] = Cardinality(txids_to_add)
               /\ UNCHANGED <<txstore, feeinfo, history, edges, recent>>]_vars

\* the fetch of a non-empty to_add has just failed after a removal that left
\* an indexed transaction behind
C10_Witness ==
    /\ FetchFailed
    /\ returned[3] > 0
    /\ txids_to_remove # {}
    /\ feeinfo # <<>>
    /\ EdgeTxids # {}

(***************************************************************************)
(* C11.  Within one update cycle removals become visible before additions: *)
(* no state a reader can observe holds a transaction added by the cycle's  *)
(* last step together with a transaction of the cycle's to_remove set.     *)
(* Stated for the synchronizer as the only writer; old_txids and all_txids *)
(* are the sets of the cycle in progress or, between cycles, of the last.  *)
(***************************************************************************)
C11_RemovalsFirst ==
    ReaderVisible =>
        \/ txids_to_add \cap DOMAIN txstore = {}
        \/ txids_to_remove \cap DOMAIN txstore = {}

\* a cycle has removed a transaction and then added another one
C11_Witness ==
    /\ ReaderVisible
    /\ returned = <<"update", "Ok">>
    /\ txids_to_remove # {}
    /\ txids_to_add \cap DOMAIN txstore # {}

(***************************************************************************)
(* C12.  Consistency of membership: over any sequence of update cycles,    *)
(* when a cycle completes successfully the keys of txstore are exactly     *)
(* (old_ids minus to_remove) united with the txids of the transactions the *)
(* fetch returned, old_ids and to_remove being the sets of that cycle.     *)
(***************************************************************************)
C12_Membership ==
    [][(upc = "add" /\ upc' = "idle")
          => /\ returned' = <<"update", "Ok">>
             /\ DOMAIN txstore' = (old_txids \ txids_to_remove) \cup Fetched]_vars

\* a cycle has completed that removed a transaction, kept one and added one
C12_Witness ==
    /\ returned = <<"update", "Ok">>
    /\ txids_to_remove # {}
    /\ (old_txids \ txids_to_remove) \cap DOMAIN txstore # {}
    /\ txids_to_add \cap DOMAIN txstore # {}

(***************************************************************************)
(* C13.  UTXO = Funding - Edges: whenever the write lock is not held, for  *)
(* every script hash the set of outpoints returned by utxo(script, None,   *)
(* unbounded limit) equals the set of (txid, vout) of the Funding entries  *)
(* of the script's history bucket minus the key set of edges.              *)
(***************************************************************************)
\* the script hashes queried: those of the buckets and one without a bucket
QueriedScripts == DOMAIN history \cup {compute_script_hash("none")}

FundingOutpoints(scripthash) ==
    IF scripthash \notin DOMAIN history THEN {}
    ELSE {get_funded_outpoint(history[scripthash][i]) :
            i \in {j \in DOMAIN history[scripthash] :
                      history[scripthash][j].kind = "Funding"}}

\* a limit no list of the bucket reaches
Unbounded(scripthash) ==
    IF scripthash \in DOMAIN history THEN Len(history[scripthash]) + 1 ELSE 1

UtxoOutpoints(scripthash) ==
    LET utxos == utxo(Aggregate, scripthash, None, Unbounded(scripthash))
    IN  {OutPoint(utxos[k].txid, utxos[k].vout) : k \in DOMAIN utxos}

C13_UtxoIsFundingMinusEdges ==
    ReaderVisible =>
        \A sh \in QueriedScripts :
            UtxoOutpoints(sh) = FundingOutpoints(sh) \ DOMAIN edges

\* script "S" is funded by (1,0), which transaction 3 spends, and by (3,0),
\* which is unspent
C13_Witness ==
    /\ ReaderVisible
    /\ FundingOutpoints(compute_script_hash("S")) = {OutPoint(1, 0), OutPoint(3, 0)}
    /\ OutPoint(1, 0) \in DOMAIN edges
    /\ UtxoOutpoints(compute_script_hash("S")) = {OutPoint(3, 0)}

(***************************************************************************)
(* C14.  utxo returns the unspent funding outputs sorted by txid           *)
(* descending then vout descending; with a cursor that occurs in the       *)
(* sorted list it returns at most limit items, those right after the       *)
(* cursor's position; with a cursor that does not occur in the list, or    *)
(* without a cursor, it returns the first limit items.                     *)
(***************************************************************************)
\* the whole list of a script: no cursor, a limit the list does not reach
UtxoList(scripthash) == utxo(Aggregate, scripthash, None, Unbounded(scripthash))

\* the positions at which a cursor occurs in a list
CursorAt(list, cursor) ==
    {k \in DOMAIN list :
        /\ cursor # None
        /\ list[k].txid = cursor[1].txid
        /\ list[k].vout = cursor[1].vout}

StrictlyDescending(list) ==
    \A i, j \in DOMAIN list :
        i < j => \/ list[i].txid > list[j].txid
                 \/ list[i].txid = list[j].txid /\ list[i].vout > list[j].vout

C14_UtxoSortedCursor ==
    query.op = "utxo" =>
        LET list == UtxoList(query.scripthash)
            at == CursorAt(list, query.after_outpoint)
            from == IF at = {} THEN 0 ELSE CHOOSE k \in at : TRUE
            upto == IF from + query.limit <= Len(list) THEN from + query.limit
                    ELSE Len(list)
        IN  /\ StrictlyDescending(list)
            /\ Cardinality(at) <= 1
            /\ {OutPoint(list[k].txid, list[k].vout) : k \in DOMAIN list}
                   = FundingOutpoints(query.scripthash) \ DOMAIN edges
            /\ query.result = [k \in 1..(upto - from) |-> list[from + k]]

\* script "S" has the unspent outputs (4,1), (4,0), (1,0); a reader asked
\* for one item after (4,1) and got (4,0)
C14_Witness ==
    /\ query.op = "utxo"
    /\ Len(UtxoList(query.scripthash)) = 3
    /\ query.after_outpoint = Some(OutPoint(4, 1))
    /\ query.limit = 1
    /\ query.result = <<[txid |-> 4, vout |-> 0, value |-> 4]>>

(***************************************************************************)
(* C15.  Paging determinism: on an unchanged txstore and for n >= 1,       *)
(* txids_page(n, None) followed by txids_page(n, Some(last id of the       *)
(* previous page)) until a page is empty lists exactly the keys of txstore *)
(* in ascending order, without duplicate and without gap.                  *)
(***************************************************************************)
Listed(seq) == {seq[k] : k \in DOMAIN seq}

C15_PagingDeterminism ==
    (query.op = "txids_page" /\ query.n >= 1) =>
        LET seen == query.seen
        IN  /\ \A i, j \in DOMAIN seen : i < j => seen[i] < seen[j]
            /\ Listed(seen) \subseteq DOMAIN txstore
            /\ \A t \in DOMAIN txstore :
                    (seen # <<>> /\ t <= seen[Len(seen)]) => t \in Listed(seen)
            /\ Len(query.result) <= query.n
            /\ query.result = <<>> => Listed(seen) = DOMAIN txstore

\* four keys have been listed in pages of two, and the third page is empty
C15_Witness ==
    /\ query.op = "txids_page"
    /\ query.n = 2
    /\ query.result = <<>>
    /\ query.seen = <<1, 2, 3, 4>>

(***************************************************************************)
(* C16.  History pagination: on an unchanged aggregate, history(script,    *)
(* None, n) followed by history(script, Some(txid of the last transaction  *)
(* returned), n) concatenate to the first min(2n, length) elements of the  *)
(* script's history deduplicated by txid, first occurrence kept, in stored *)
(* order.                                                                  *)
(***************************************************************************)
\* the txids of a bucket in stored order, every txid at its first occurrence
Deduplicated(scripthash) ==
    IF scripthash \notin DOMAIN history THEN <<>>
    ELSE LET entries == history[scripthash]
             firsts == {i \in DOMAIN entries :
                          \A j \in 1..(i - 1) :
                              get_txid(entries[j]) # get_txid(entries[i])}
             at == SortedKeys(firsts)
         IN  [k \in DOMAIN at |-> get_txid(entries[at[k]])]

C16_HistoryPagination ==
    (query.op = "history" /\ query.last_seen_txid # None) =>
        LET dedup == Deduplicated(query.scripthash)
            upto == IF 2 * query.limit <= Len(dedup) THEN 2 * query.limit
                    ELSE Len(dedup)
        IN  query.seen = [k \in 1..upto |-> txstore[dedup[k]]]

\* a bucket with more entries than transactions: three transactions, read
\* in two pages of one
C16_Witness ==
    /\ query.op = "history"
    /\ query.last_seen_txid # None
    /\ query.limit = 1
    /\ Len(Deduplicated(query.scripthash)) = 3
    /\ Len(history[query.scripthash]) > 3
    /\ Len(query.seen) = 2

(***************************************************************************)
(* C17.  recent is a bounded newest-first buffer: its length is at most    *)
(* the configured capacity in every reachable state, and after add has     *)
(* indexed the transactions t1..tk in that order the leading entries of    *)
(* recent are tk, ..., t1 (cut at the capacity), followed by the older     *)
(* entries that survive, in the order they had.                            *)
(***************************************************************************)
\* the txids the add of this step indexes, in the order of the batch
IndexedInOrder ==
    LET indexed(tx) == /\ txid_of(tx) \in NewlyAdmitted
                       /\ txid_of(tx) \in DOMAIN feeinfo'
        txs == SelectSeq(AddBatch, indexed)
    IN  [k \in DOMAIN txs |-> txid_of(txs[k])]

C17_RecentBounded ==
    /\ [](Len(recent) <= RecentTxsSize)
    /\ [][AddBatch # <<>> =>
            LET ids == IndexedInOrder
                n == Len(ids)
                total == IF n + Len(recent) <= RecentTxsSize THEN n + Len(recent)
                         ELSE RecentTxsSize
            IN  /\ n = processed_count'
                /\ Len(recent') = total
                /\ \A k \in 1..total :
                      IF k <= n
                      THEN /\ recent'[k].txid = ids[n + 1 - k]
                           /\ recent'[k].fee = feeinfo'[ids[n + 1 - k]].fee
                           /\ recent'[k].vsize = feeinfo'[ids[n + 1 - k]].vsize
                      ELSE recent'[k] = recent[k - n]]_vars

\* one add has indexed three transactions and recent is full
C17_Witness ==
    /\ processed_count = 3
    /\ Len(recent) = RecentTxsSize

(***************************************************************************)
(* C18.  Recent monotonicity: when an update cycle adds a transaction t    *)
(* and indexes it, then right after the cycle t is the front entry of      *)
(* recent, or every entry in front of t belongs to a transaction admitted  *)
(* after t by the same call of add, or t has been pushed out and every     *)
(* entry of recent belongs to such a transaction.  A transaction that is   *)
(* stored without being indexed gets no entry at all.                      *)
(***************************************************************************)
\* the position of a txid in the batch handed to add
PositionInBatch(t) == CHOOSE k \in DOMAIN AddBatch : txid_of(AddBatch[k]) = t

\* the entry is the overview of a transaction this add admits after t
AdmittedAfter(entry, t) ==
    /\ entry.txid \in NewlyAdmitted
    /\ PositionInBatch(entry.txid) > PositionInBatch(t)

C18_RecentMonotonicity ==
    [][(upc = "add" /\ upc' = "idle") =>
         \A t \in NewlyAdmitted :
            LET at == {k \in DOMAIN recent' : recent'[k].txid = t}
            IN  IF t \notin DOMAIN feeinfo'
                THEN \A k \in at : k > processed_count'
                ELSE IF at # {}
                THEN LET p == CHOOSE k \in at : \A j \in at : k <= j
                     IN  \A k \in 1..(p - 1) : AdmittedAfter(recent'[k], t)
                ELSE /\ Len(recent') = RecentTxsSize
                     /\ \A k \in DOMAIN recent' : AdmittedAfter(recent'[k], t)]_vars

\* a cycle has indexed transaction 1 and then transaction 3, which is now in
\* front of it
C18_Witness ==
    /\ returned = <<"update", "Ok">>
    /\ processed_count = 2
    /\ Len(recent) >= 2
    /\ recent[1].txid = 3
    /\ recent[2].txid = 1

(***************************************************************************)
(* C19.  remove leaves recent unchanged: after remove(ids) recent holds    *)
(* the same entries in the same order as before, so it may hold overviews  *)
(* of transactions that are no longer in txstore.                          *)
(***************************************************************************)
C19_RemoveKeepsRecent ==
    [][(\/ upc = "remove" /\ upc' # "remove"
        \/ upc = "remove_index" /\ upc' # "remove_index")
          => recent' = recent]_vars

\* remove has just taken out a transaction whose overview is still in recent
C19_Witness ==
    /\ upc = "fetch"
    /\ \E k \in DOMAIN recent :
          /\ recent[k].txid \in txids_to_remove
          /\ recent[k].txid \notin DOMAIN txstore

(***************************************************************************)
(* C20.  Backlog TTL: in the last step of update the cached backlog        *)
(* summary is recomputed only if the time elapsed since its last refresh   *)
(* is at least backlog_stats_ttl; when less time has elapsed the cached    *)
(* value and its refresh instant are left unchanged, so of two successful  *)
(* updates less than the TTL apart the second does not recompute.  A       *)
(* recomputed summary is that of feeinfo as add left it, stamped with the  *)
(* current instant.                                                        *)
(***************************************************************************)
Elapsed == now - backlog_stats.at

C20_BacklogTtl ==
    [][(upc = "add" /\ upc' = "idle") =>
         /\ backlog_stats' # backlog_stats => Elapsed >= BacklogStatsTtl
         /\ Elapsed < BacklogStatsTtl => backlog_stats' = backlog_stats
         /\ \/ backlog_stats' = backlog_stats
            \/ backlog_stats' = [stats |-> BacklogStatsNew(feeinfo'), at |-> now]]_vars

\* an update has recomputed the summary, and a second one less than the TTL
\* later has indexed a transaction and left the summary as it was
C20_Witness ==
    /\ returned = <<"update", "Ok">>
    /\ processed_count > 0
    /\ backlog_stats.at >= 0
    /\ Elapsed < BacklogStatsTtl
    /\ backlog_stats.stats.count > 0
    /\ backlog_stats.stats # BacklogStatsNew(feeinfo)

(***************************************************************************)
(* C21.  add_by_txid(txid) called with a txid that is already in txstore   *)
(* returns success and changes nothing.  Called with any other txid it     *)
(* asks the Daemon for the transaction and changes nothing before the      *)
(* answer; when add of the fetched transaction indexes none it returns     *)
(* MissingParents(txid), when add indexes it it returns success.           *)
(***************************************************************************)
C21_AddByTxid ==
    [][/\ (apc = "idle" /\ returned'[1] = "add_by_txid") =>
            /\ returned'[3] \in DOMAIN txstore
            /\ returned' = <<"add_by_txid", "Ok", returned'[3]>>
            /\ apc' = "idle"
            /\ mempool' = mempool
            /\ backlog_stats' = backlog_stats
       /\ (apc = "idle" /\ apc' = "rpc") =>
            /\ abt_txid' \notin DOMAIN txstore
            /\ mempool' = mempool
       /\ (apc = "rpc" /\ apc' = "idle" /\ processed_count' = 0) =>
            returned' = <<"add_by_txid", "MissingParents", abt_txid>>
       /\ (apc = "rpc" /\ apc' = "idle" /\ processed_count' > 0) =>
            returned' = <<"add_by_txid", "Ok", abt_txid>>]_vars

\* add_by_txid(T2) has fetched T2 while its parent T1 was not in the mempool:
\* add indexed nothing and the call failed
C21_Witness ==
    /\ returned = <<"add_by_txid", "MissingParents", 2>>
    /\ processed_count = 0
    /\ 2 \notin DOMAIN feeinfo

(***************************************************************************)
(* C22.  remove(ids) panics when ids holds an id that is no key of         *)
(* txstore.  remove of the empty set leaves txstore, feeinfo, history,     *)
(* edges and recent as they were, in both of its passes.                   *)
(***************************************************************************)
RemoveCalled == upc = "remove" /\ lock = "free" /\ lock' = "update"

RemoveFinished == upc = "remove_index" /\ lock = "update" /\ lock' = "free"

C22_RemovePrecondition ==
    [][/\ (RemoveCalled /\ txids_to_remove \ DOMAIN txstore # {}) =>
            (panicked' /\ upc' = "panic")
       /\ ((RemoveCalled \/ RemoveFinished) /\ txids_to_remove = {}) =>
            (mempool' = mempool /\ ~panicked')]_vars

\* remove was called with an id that another update had removed already,
\* and has panicked
C22_Witness ==
    /\ panicked
    /\ upc = "panic"
    /\ txids_to_remove \ DOMAIN txstore # {}

(***************************************************************************)
(* C23.  Eviction of a parent (scenario S5): the mempool holds T1 and its  *)
(* indexed child T2, with the edge (T1,0) -> (T2,0), and the Daemon lists  *)
(* T2 only.  Neither pass of remove touches the feeinfo record of T2, the  *)
(* history entries of T2 or that edge, and when remove is done txstore is  *)
(* {T2} and no history entry has txid T1.                                  *)
(***************************************************************************)
EntriesOf(h, txid) ==
    LET of_txid(entry) == get_txid(entry) = txid
        selected == [sh \in DOMAIN h |-> SelectSeq(h[sh], of_txid)]
    IN  Restrict(selected, {sh \in DOMAIN selected : selected[sh] # <<>>})

HasEdge(e, op, spender) == op \in DOMAIN e /\ e[op] = spender

S5Eviction ==
    /\ old_txids = {1, 2}
    /\ all_txids = {2}
    /\ 2 \in DOMAIN feeinfo
    /\ HasEdge(edges, OutPoint(1, 0), <<2, 0>>)

C23_EvictionKeepsChild ==
    [][/\ (S5Eviction /\ (RemoveCalled \/ RemoveFinished)) =>
            /\ ~panicked'
            /\ 2 \in DOMAIN feeinfo' /\ feeinfo'[2] = feeinfo[2]
            /\ EntriesOf(history', 2) = EntriesOf(history, 2)
            /\ HasEdge(edges', OutPoint(1, 0), <<2, 0>>)
       /\ (S5Eviction /\ RemoveFinished) =>
            /\ DOMAIN txstore' = {2}
            /\ 1 \notin HistoryTxids']_vars

\* the second cycle of S5 has removed T1: T2 is the one stored transaction,
\* still indexed under both of its scripts and still the spender of (T1,0)
C23_Witness ==
    /\ upc = "fetch"
    /\ S5Eviction
    /\ DOMAIN txstore = {2}
    /\ 1 \notin HistoryTxids
    /\ DOMAIN EntriesOf(history, 2) =
           {compute_script_hash("S"), compute_script_hash("S2")}

(***************************************************************************)
(* C24.  add ignores duplicates and counts the indexed transactions only.  *)
(* A transaction of the batch whose txid is a key of txstore already gets  *)
(* no feeinfo record, no history entry, no edge and no recent entry; a     *)
(* transaction that comes twice in the batch is indexed once; the returned *)
(* count is the number of transactions that the call admitted and indexed. *)
(* A second add of the same batch returns 0 and changes nothing.           *)
(***************************************************************************)
EdgesOf(e, txid) == {op \in DOMAIN e : e[op][1] = txid}

OverviewsOf(r, txid) == Cardinality({k \in DOMAIN r : r[k].txid = txid})

NoDuplicateEntries(h) ==
    \A sh \in DOMAIN h : \A i, j \in DOMAIN h[sh] : i # j => h[sh][i] # h[sh][j]

AddCalled == query'.op = "add"

BatchOf(q) == [k \in DOMAIN q.batch |-> TxData[q.batch[k]]]

C24_AddIgnoresDuplicates ==
    [][AddCalled =>
         LET batch == {query'.batch[k] : k \in DOMAIN query'.batch}
             admitted == batch \ DOMAIN txstore
             indexed == DOMAIN feeinfo' \ DOMAIN feeinfo
         IN  /\ DOMAIN txstore' = DOMAIN txstore \cup batch
             /\ indexed \subseteq admitted
             /\ processed_count' = Cardinality(indexed)
             /\ \A txid \in DOMAIN txstore :
                    /\ txid \in DOMAIN feeinfo' <=> txid \in DOMAIN feeinfo
                    /\ txid \in DOMAIN feeinfo => feeinfo'[txid] = feeinfo[txid]
                    /\ EntriesOf(history', txid) = EntriesOf(history, txid)
                    /\ EdgesOf(edges', txid) \subseteq EdgesOf(edges, txid)
                    /\ OverviewsOf(recent', txid) <= OverviewsOf(recent, txid)
             /\ \A txid \in admitted : OverviewsOf(recent', txid) <= 1
             /\ NoDuplicateEntries(history) => NoDuplicateEntries(history')
             /\ \A orders \in SpendOrders :
                    Add(Aggregate', BatchOf(query'), orders) =
                        [Aggregate' EXCEPT !.count = 0]]_vars

\* add was called with T1 twice in one batch, after T1 had been indexed
C24_Witness ==
    /\ query.op = "add"
    /\ query.batch = <<1, 1>>
    /\ processed_count = 0
    /\ 1 \in DOMAIN feeinfo

(***************************************************************************)
(* C25.  Queries never fail.  Whenever no writer holds the lock, whatever  *)
(* the update cycles and the add_by_txid calls have done so far: history   *)
(* and history_group find every transaction they look up in txstore, for   *)
(* every script hash, last seen txid and limit; history, history_group,    *)
(* history_txids and utxo return an empty list and stats returns zeroes    *)
(* for a script hash that has no bucket; lookup_txn, get_tx_fee and        *)
(* lookup_spend return None for an id that is no key of their map.         *)
(***************************************************************************)
\* the last seen txids a reader passes: none, the transactions the Daemon
\* can report and the txid of a confirmed transaction
LastSeenTxids == {None} \cup {Some(t) : t \in daemon_txs \cup {9}}

\* the limits a reader passes: none, one, the largest
Limits == {0, 1, MaxLimit}

\* the group of script hashes a reader passes to history_group: both
\* scripts, and between them one that has no bucket
ScriptGroup ==
    <<compute_script_hash("S2"), compute_script_hash("none"), compute_script_hash("S")>>

NoQueryFails ==
    ReaderVisible =>
        /\ \A last \in LastSeenTxids : \A limit \in Limits :
              /\ \A sh \in DOMAIN history :
                    history_of(Aggregate, sh, last, limit) # MissingMempoolTx
              /\ history_group(Aggregate, ScriptGroup, last, limit) # MissingMempoolTx
        /\ \A sh \in QueryScripts \ DOMAIN history :
              /\ stats(Aggregate, sh) = ScriptStatsDefault
              /\ \A limit \in Limits :
                    /\ history_txids(Aggregate, sh, limit) = <<>>
                    /\ \A cursor \in QueryOutpoints :
                          utxo(Aggregate, sh, cursor, limit) = <<>>
              /\ \A last \in LastSeenTxids :
                    /\ history_of(Aggregate, sh, last, MaxLimit) = <<>>
                    /\ history_group(Aggregate, <<sh>>, last, MaxLimit) = <<>>
        /\ \A txid \in (Txids \cup {9}) \ DOMAIN txstore :
              lookup_txn(Aggregate, txid) = None
        /\ \A txid \in (Txids \cup {9}) \ DOMAIN feeinfo :
              get_tx_fee(Aggregate, txid) = None
        /\ \A cursor \in QueryOutpoints \ {None} :
              cursor[1] \notin DOMAIN edges => lookup_spend(Aggregate, cursor[1]) = None

C25_QueriesNeverFail == []NoQueryFails

\* a cycle has removed T1 and left T3, which spent its output: history of S
\* returns T3 where it would have looked up T1, S2 has no bucket any more,
\* T1 is unknown, and T2 is stored without a fee
C25_Witness ==
    /\ ReaderVisible
    /\ upc = "fetch"
    /\ 1 \in txids_to_remove
    /\ history_of(Aggregate, compute_script_hash("S"), None, MaxLimit) = <<TxData[3]>>
    /\ compute_script_hash("S2") \notin DOMAIN history
    /\ lookup_txn(Aggregate, 1) = None
    /\ lookup_txn(Aggregate, 2) # None
    /\ get_tx_fee(Aggregate, 2) = None

(***************************************************************************)
(* C26.  update holds no lock on the aggregate while one of its two Daemon *)
(* calls is in flight, and none when it has returned, with success or with *)
(* either error: the lock is then free for a reader unless add_by_txid     *)
(* holds it.                                                               *)
(***************************************************************************)
\* getmempooltxids or gettransactions has been sent and has not returned
UpdateRpcPending == upc \in {"list", "fetch"}

UpdateReturned == returned[1] = "update"

C26_UpdateReleasesLock ==
    /\ UpdateRpcPending => lock \in {"free", "add_by_txid"}
    /\ UpdateReturned => (upc = "idle" /\ lock \in {"free", "add_by_txid"})
    /\ (UpdateRpcPending \/ UpdateReturned) /\ apc = "idle" => lock = "free"

\* remove has run under the write lock and released it; gettransactions is
\* pending and nobody holds the lock
C26_Witness ==
    /\ upc = "fetch"
    /\ txids_to_remove # {}
    /\ txids_to_add # {}
    /\ DOMAIN txstore \cap txids_to_remove = {}
    /\ lock = "free"

(***************************************************************************)
(* C27.  In-batch parent resolution.  A transaction that add admits and    *)
(* whose unconfirmed parents all come in the same batch is indexed by that *)
(* call, wherever in the batch the parents stand, before it or after it:   *)
(* it gets its feeinfo record, and for every input that spends an output   *)
(* of a parent a Spending entry under the script of that output and the    *)
(* edge from that output to the input.                                     *)
(***************************************************************************)
\* the inputs (from 0) of tx that spend an output of the transaction parent
InputsSpending(tx, parent) ==
    {i \in 0..(Len(tx.input) - 1) :
        /\ has_prevout(tx.input[i + 1])
        /\ tx.input[i + 1].previous_output \notin DOMAIN ChainTxos
        /\ tx.input[i + 1].previous_output.txid = parent}

\* the txids of the unconfirmed transactions tx spends from
ParentsOf(tx) ==
    {tx.input[i].previous_output.txid :
        i \in {j \in DOMAIN tx.input :
                  /\ has_prevout(tx.input[j])
                  /\ tx.input[j].previous_output \notin DOMAIN ChainTxos}}

HasSpendingEntry(h, txid, vin, prevout, txo) ==
    /\ compute_script_hash(txo.script_pubkey) \in DOMAIN h
    /\ \E k \in DOMAIN h[compute_script_hash(txo.script_pubkey)] :
          h[compute_script_hash(txo.script_pubkey)][k] =
              [kind      |-> "Spending",
               txid      |-> full_hash(txid),
               vin       |-> vin,
               prev_txid |-> full_hash(prevout.txid),
               prev_vout |-> prevout.vout,
               value     |-> txo.value]

C27_InBatchParents ==
    [][(upc = "add" /\ upc' = "idle") =>
         LET batch == {txid_of(txs_to_add[k]) : k \in DOMAIN txs_to_add}
         IN  \A child \in batch \ DOMAIN txstore :
                (ParentsOf(TxData[child]) # {} /\ ParentsOf(TxData[child]) \subseteq batch) =>
                    /\ child \in DOMAIN feeinfo'
                    /\ \A parent \in ParentsOf(TxData[child]) :
                       \A i \in InputsSpending(TxData[child], parent) :
                          LET prevout == TxData[child].input[i + 1].previous_output
                          IN  /\ HasSpendingEntry(history', child, i, prevout,
                                     TxData[parent].output[prevout.vout + 1])
                              /\ HasEdge(edges', prevout, <<child, i>>)]_vars

\* update has added the batch [T2, T1], the child in front of its parent:
\* both were indexed, T2 first
C27_Witness ==
    /\ returned = <<"update", "Ok">>
    /\ processed_count = 2
    /\ Len(recent) = 2 /\ recent[1].txid = 1 /\ recent[2].txid = 2
    /\ HasEdge(edges, OutPoint(1, 0), <<2, 0>>)
    /\ HasSpendingEntry(history, 2, 0, OutPoint(1, 0), TxData[1].output[1])

(***************************************************************************)
(* C28.  Order within a history bucket.  In every bucket the entries of    *)
(* one transaction stand together, its Funding entries in front of its     *)
(* Spending entries.  The entries of transactions indexed earlier stand in *)
(* front of those of transactions indexed later: add leaves the entries    *)
(* that a bucket has where they are and appends those of the transactions  *)
(* it indexes in the order of the batch, and remove keeps the order of the *)
(* entries it retains.                                                     *)
(***************************************************************************)
FundingBeforeSpending(h) ==
    \A sh \in DOMAIN h : \A i, j \in DOMAIN h[sh] :
        (i < j /\ get_txid(h[sh][i]) = get_txid(h[sh][j]) /\ h[sh][j].kind = "Funding")
            => h[sh][i].kind = "Funding"

EntriesTogether(h) ==
    \A sh \in DOMAIN h : \A i, j, k \in DOMAIN h[sh] :
        (i < k /\ k < j /\ get_txid(h[sh][i]) = get_txid(h[sh][j]))
            => get_txid(h[sh][k]) = get_txid(h[sh][i])

\* add has appended to the buckets, the entries of the batch in its order
AppendedInBatchOrder(h_old, h_new) ==
    /\ DOMAIN h_old \subseteq DOMAIN h_new
    /\ \A sh \in DOMAIN h_new :
          LET before == IF sh \in DOMAIN h_old THEN h_old[sh] ELSE <<>>
              after == h_new[sh]
          IN  /\ Len(before) <= Len(after)
              /\ SubSeq(after, 1, Len(before)) = before
              /\ \A i, j \in (Len(before) + 1)..Len(after) :
                    /\ get_txid(after[i]) \in NewlyAdmitted
                    /\ (i < j /\ get_txid(after[i]) # get_txid(after[j])) =>
                          PositionInBatch(get_txid(after[i])) <
                              PositionInBatch(get_txid(after[j]))

\* remove has dropped entries and kept the others in their order
RetainedInOrder(h_old, h_new, to_remove) ==
    /\ DOMAIN h_new \subseteq DOMAIN h_old
    /\ \A sh \in DOMAIN h_old :
          LET keep(entry) == get_txid(entry) \notin to_remove
              kept == SelectSeq(h_old[sh], keep)
          IN  IF sh \in DOMAIN h_new THEN h_new[sh] = kept ELSE kept = <<>>

C28_BucketOrder ==
    /\ [](FundingBeforeSpending(history) /\ EntriesTogether(history))
    /\ [][/\ AddBatch # <<>> => AppendedInBatchOrder(history, history')
          /\ RemoveFinished => RetainedInOrder(history, history', txids_to_remove)
          /\ (AddBatch = <<>> /\ ~RemoveFinished) => history' = history]_vars

\* the bucket of S holds the Funding entry of T1, indexed first, and behind
\* it those of T3: its Funding entry, then its two Spending entries
C28_Witness ==
    LET sh == compute_script_hash("S")
    IN  /\ sh \in DOMAIN history
        /\ Len(history[sh]) = 4
        /\ get_txid(history[sh][1]) = 1
        /\ \A k \in 2..4 : get_txid(history[sh][k]) = 3
        /\ history[sh][2].kind = "Funding"
        /\ history[sh][3].kind = "Spending"
        /\ history[sh][4].kind = "Spending"

(***************************************************************************)
(* C29.  Edge completeness: whenever no writer holds the lock, for every   *)
(* indexed transaction (one with a feeinfo record) and every input i of    *)
(* it, edges maps the previous output of that input to (txid, i), whatever *)
(* other spender of the same output was indexed after it or removed.       *)
(***************************************************************************)
EdgeComplete ==
    \A txid \in DOMAIN feeinfo \cap DOMAIN txstore :
        \A i \in 0..(Len(txstore[txid].input) - 1) :
            HasEdge(edges, txstore[txid].input[i + 1].previous_output, <<txid, i>>)

C29_EdgeCompleteness == ReaderVisible => EdgeComplete

(***************************************************************************)
(* C30.  remove never panics inside update: with two update cycles running *)
(* on the same aggregate, every id of the set to remove, computed from the *)
(* snapshot of step 1, is still a key of txstore when remove runs under    *)
(* the write lock.                                                         *)
(***************************************************************************)
C30_RemoveNeverPanics ==
    /\ ~panicked
    /\ upc = "remove_index" => txids_to_remove \cap DOMAIN txstore = {}
    /\ upc # "panic"

(***************************************************************************)
(* C31.  add_by_txid is not atomic on failure.  When it returns            *)
(* MissingParents(txid) the fetched transaction is a key of txstore all    *)
(* the same, with no feeinfo record, no history entry and no edge.  A call *)
(* of add_by_txid for a txid that is stored without being indexed, the     *)
(* call right after the failed one among them, returns success and indexes *)
(* nothing.                                                                *)
(***************************************************************************)
MissingParentsReturned ==
    apc = "rpc" /\ apc' = "idle" /\ returned' = <<"add_by_txid", "MissingParents", abt_txid>>

\* add_by_txid is called for a transaction stored but not indexed
CalledForUnindexed(txid) ==
    /\ apc = "idle" /\ lock = "free"
    /\ returned'[1] = "add_by_txid" /\ returned'[3] = txid
    /\ txid \in DOMAIN txstore \ DOMAIN feeinfo

C31_FailureLeavesTxStored ==
    [][/\ MissingParentsReturned =>
            /\ abt_txid \notin DOMAIN txstore
            /\ abt_txid \in DOMAIN txstore'
            /\ txstore'[abt_txid] = TxData[abt_txid]
            /\ abt_txid \notin DOMAIN feeinfo'
            /\ abt_txid \notin HistoryTxids' \cup EdgeTxids'
            /\ <<feeinfo', history', edges', recent'>> = <<feeinfo, history, edges, recent>>
       /\ \A txid \in daemon_txs :
            CalledForUnindexed(txid) =>
                /\ returned' = <<"add_by_txid", "Ok", txid>>
                /\ apc' = "idle"
                /\ mempool' = mempool
       /\ \A txid \in daemon_txs :
            (returned = <<"add_by_txid", "MissingParents", txid>> /\ apc = "idle"
             /\ returned'[1] = "add_by_txid" /\ returned'[3] = txid) =>
                /\ returned'[2] = "Ok"
                /\ txid \notin DOMAIN feeinfo']_vars

\* add_by_txid(T2) was called again after T2 had been stored without its
\* parent: it returned success, and T2 is not indexed although T1 is there
C31_Witness ==
    /\ returned = <<"add_by_txid", "Ok", 2>>
    /\ 2 \in DOMAIN txstore \ DOMAIN feeinfo
    /\ 1 \in DOMAIN feeinfo
    /\ 2 \notin HistoryTxids \cup EdgeTxids

(***************************************************************************)
(* C32.  When add_by_txid is called for a txid that is no key of txstore   *)
(* and daemon.getmempooltx fails, add_by_txid returns success and txstore, *)
(* feeinfo, history, edges and recent are what they were at the call.      *)
(***************************************************************************)
\* add_by_txid returns without having called add: the fetch failed
FetchFailedInAddByTxid ==
    apc = "rpc" /\ apc' = "idle" /\ processed_count' = NoAdd

C32_FetchFailureIsSuccess ==
    [][/\ (apc = "idle" /\ apc' = "rpc") =>
            (abt_txid' \notin DOMAIN txstore /\ mempool' = mempool)
       /\ apc = "rpc" => (apc' = "rpc" => mempool' = mempool)
       /\ FetchFailedInAddByTxid =>
            /\ returned' = <<"add_by_txid", "Ok", abt_txid>>
            /\ mempool' = mempool
            /\ abt_txid \notin DOMAIN txstore']_vars

\* add_by_txid(T1) has returned success, and T1 is not in the mempool
C32_Witness ==
    /\ returned = <<"add_by_txid", "Ok", 1>>
    /\ processed_count = NoAdd
    /\ 1 \notin DOMAIN txstore
    /\ apc = "idle"

(***************************************************************************)
(* C33.  history and history_group called with a last seen txid that does  *)
(* not occur among the txids of the queried bucket or buckets return the   *)
(* empty list, whatever the limit: there is no fall back to the first page *)
(* as utxo has for a cursor it does not find.                              *)
(***************************************************************************)
\* the txids of the entries of the buckets of the queried script hashes
QueriedTxids ==
    UNION {{get_txid(history[query.scripthashes[k]][i]) :
                i \in DOMAIN history[query.scripthashes[k]]} :
           k \in {j \in DOMAIN query.scripthashes :
                     query.scripthashes[j] \in DOMAIN history}}

ResumedFromUnknown ==
    /\ query.op \in {"history_at", "history_group"}
    /\ query.last_seen_txid # None
    /\ query.last_seen_txid[1] \notin QueriedTxids

C33_UnknownLastSeenIsEmpty == ResumedFromUnknown => query.result = <<>>

\* history_group over two buckets that name three transactions, resumed
\* from a transaction that is stored but in neither bucket
C33_Witness ==
    /\ ResumedFromUnknown
    /\ query.op = "history_group"
    /\ query.limit = MaxLimit
    /\ Cardinality(QueriedTxids) = 3
    /\ query.last_seen_txid[1] \in DOMAIN txstore
    /\ query.result = <<>>
    /\ utxo(Aggregate, compute_script_hash("S"), Some(OutPoint(9, 0)), MaxLimit) # <<>>

(***************************************************************************)
(* C34.  update is idempotent on a stable remote set.  As claimed: when a  *)
(* successful cycle is followed, with no other writer in between, by a     *)
(* successful cycle in which the Daemon lists the same ids, the second     *)
(* cycle computes an empty set to add and an empty set to remove and       *)
(* leaves txstore, feeinfo, history, edges and recent unchanged.           *)
(***************************************************************************)
\* the step is a successful cycle that follows a successful cycle and gets
\* the same listing
SameListingAgain ==
    /\ returned = <<"update", "Ok">>
    /\ returned' = <<"update", "Ok">>
    /\ all_txids' = all_txids

NothingToDo ==
    /\ txids_to_add' = {}
    /\ txids_to_remove' = {}
    /\ txs_to_add' = <<>>
    /\ processed_count' = 0
    /\ mempool' = mempool

C34_UpdateIdempotent == [][SameListingAgain => NothingToDo]_vars

(***************************************************************************)
(* C34, amended.  The same, when the Daemon returned in the first cycle    *)
(* every transaction the cycle asked for: then the second cycle has        *)
(* nothing to add and nothing to remove and changes none of the five       *)
(* indices, so that a transaction stored without being indexed stays so.   *)
(***************************************************************************)
\* the cycle that has just returned got every transaction it asked for
FetchWasComplete ==
    Fetched = txids_to_add

C34_IdempotentAfterCompleteFetch ==
    [][(SameListingAgain /\ FetchWasComplete) =>
          /\ NothingToDo
          /\ DOMAIN txstore' \ DOMAIN feeinfo' = DOMAIN txstore \ DOMAIN feeinfo]_vars

\* a second cycle with the listing {T1, T2} has found nothing to do; T2,
\* stored before its parent came, is still not indexed
C34_Witness ==
    /\ returned = <<"update", "Ok">>
    /\ old_txids = {1, 2} /\ all_txids = {1, 2}
    /\ txs_to_add = <<>>
    /\ DOMAIN txstore = {1, 2}
    /\ DOMAIN feeinfo = {1}

(***************************************************************************)
(* C35.  Indexed-set coherence: whenever the write lock is not held, every *)
(* txid a history entry names and every txid stored as the value of an     *)
(* edge has a feeinfo record.                                              *)
(***************************************************************************)
IndexedSetCoherent == HistoryTxids \cup EdgeTxids \subseteq DOMAIN feeinfo

C35_IndexedSetCoherence == ReaderVisible => IndexedSetCoherent

\* an indexed transaction has been removed; of the transactions left one is
\* stored without a feeinfo record and appears in no entry and no edge, the
\* others are indexed and one of them spends
C35_Witness ==
    /\ ReaderVisible
    /\ upc = "fetch"
    /\ txids_to_remove \cap old_txids # {}
    /\ DOMAIN txstore \ DOMAIN feeinfo # {}
    /\ HistoryTxids = DOMAIN feeinfo
    /\ EdgeTxids # {}

(***************************************************************************)
(* C36.  backlog_stats is modified only in the final critical section of   *)
(* a successful update: the two passes of remove, add as add_by_txid calls *)
(* it, add_by_txid itself and the cycles that end on an error of the       *)
(* Daemon leave the cached summary and its instant as they were; the       *)
(* summary may therefore count transactions that feeinfo no longer holds.  *)
(***************************************************************************)
FinalSectionOfUpdate ==
    /\ upc = "add" /\ upc' = "idle"
    /\ returned' = <<"update", "Ok">>

RemoveStep == upc \in {"remove", "remove_index"}

AddByTxidStep == apc' # apc

UpdateAborts ==
    /\ returned' \in {<<"update", "ListFailed">>, <<"update", "FetchFailed">>}
    /\ upc' = "idle"

C36_BacklogOnlyInUpdate ==
    [][/\ backlog_stats' # backlog_stats => FinalSectionOfUpdate
       /\ (RemoveStep \/ AddByTxidStep \/ UpdateAborts) =>
              backlog_stats' = backlog_stats]_vars

\* the summary was computed when two transactions were indexed; a later
\* cycle has removed one of them and add_by_txid has run, and the summary
\* still counts two
C36_Witness ==
    /\ ReaderVisible
    /\ txids_to_remove # {}
    /\ upc = "fetch"
    /\ returned[1] = "add_by_txid"
    /\ backlog_stats.stats.count = 2
    /\ Cardinality(DOMAIN feeinfo) < 2

====
